---- MODULE Spec2Model ----
(***************************************************************************)
(* One call of EvaluationEngine.evaluate (backend/app/evaluation/          *)
(* pipeline.py) as a state machine: validation, fan-out of one asyncio     *)
(* task per resolved model, the disconnect monitor, the asyncio.wait race  *)
(* against the run deadline, cancellation, collection, classification and  *)
(* persistence.                                                            *)
(*                                                                         *)
(* Scheduling model: asyncio is cooperative, so every action is one        *)
(* uninterrupted stretch of code between two suspension points.            *)
(* asyncio.wait_for is taken as the inline form (the awaited coroutine     *)
(* runs inside the unit's own task), so a provider call that completes     *)
(* and the unit that returns its result are one step.                      *)
(*                                                                         *)
(* GenerationResult is taken with the fields pipeline.py and openai.py     *)
(* construct it with; raw_request / raw_response carry no control flow     *)
(* and are left out of the record.  Providers are the opaque capability    *)
(* of providers/base.py: generate returns a result, raises an Exception,   *)
(* or stays pending; it propagates a cancellation.                         *)
(*                                                                         *)
(* Six specifications share the variables:                               *)
(*   Spec       one evaluate call, with a file system that does not fail;  *)
(*   SpecCanon  canonicalize_request (utils/canonical.py) applied to a     *)
(*              request drawn from a bounded set;                          *)
(*   SpecStore  _persist_run step by step, each file operation succeeding  *)
(*              or raising, beside readers calling list_runs and get_run;  *)
(*   SpecReduce lines 97-105 of evaluate (annotation, synthesize,          *)
(*              _compare, _map_generation) applied to a list of            *)
(*              generations drawn from a bounded set;                      *)
(*   SpecRedact redact_payload (utils/redact.py) applied, and applied      *)
(*              again, to a payload drawn from a bounded set;              *)
(*   SpecCall   one OpenAIProvider.generate call (providers/openai.py)     *)
(*              with its sanitized raw_request / raw_response, and the     *)
(*              run document _persist_run builds from its result.          *)
(***************************************************************************)
EXTENDS Integers, Sequences, FiniteSets, TLC

VARIABLES
    prompt,            \* request.prompt, then the trimmed prompt (line 59)
    requested,         \* request.models: [given, ids]; given = FALSE is None
    client,            \* TRUE iff a client_request was passed to evaluate
    phase,             \* position of evaluate / _gather
    error,             \* the exception that left evaluate, or NoError
    selected,          \* selected_models
    units,             \* one asyncio task per entry of selected_models
    tasks,             \* the dict `tasks`, in insertion order: <<[id, unit]>>
    monitor,           \* state of monitor_task
    disconnected,      \* what client_request.is_disconnected() answers
    wait,              \* how asyncio.wait ended, and what ran at that moment
    cancel_reason,     \* the local cancel_reason of _gather
    results,           \* the list `results` of _gather
    response,          \* the EvaluateResponse returned
    runs,              \* run files under runs_dir
    run_hash,          \* the run_hash of evaluate (line 71)
    canon,             \* canonicalize_request on its own: [request, run_hash]
    files,             \* the runs directory: file name -> file
    persist,           \* position and locals of _persist_run
    seen,              \* what the last call of a reader returned
    reduce,            \* synthesis and comparison on their own: inputs and results
    redact,            \* redact_payload on its own: the payload and what it became
    call               \* one OpenAIProvider.generate call: locals and result

vars == <<prompt, requested, client, phase, error, selected, units, tasks,
          monitor, disconnected, wait, cancel_reason, results, response, runs,
          run_hash, canon, files, persist, seen, reduce, redact, call>>

\* What evaluate does not touch.
auxVars == <<canon, files, persist, seen, reduce, redact, call>>

None == "None"

(***************************************************************************)
(* Bounds of the model.                                                    *)
(***************************************************************************)
MaxPromptLen == 2          \* length of the raw prompt
MaxRequested == 3          \* length of request.models
MaxPromptChars == 1        \* PRISM_MAX_PROMPT_CHARS chosen for the model
MaxModelsPerRequest == 2   \* PRISM_MAX_MODELS chosen for the model
MaxGenerations == 3        \* length of the list of generations given to the reducers

Chars == {" ", "x"}

RECURSIVE SeqsUpTo(_, _)
SeqsUpTo(S, n) ==
    IF n = 0 THEN {<<>>}
    ELSE LET shorter == SeqsUpTo(S, n - 1)
         IN  shorter \cup {Append(s, x) : s \in {t \in shorter : Len(t) = n - 1}, x \in S}

Prompts == SeqsUpTo(Chars, MaxPromptLen)

(***************************************************************************)
(* str.strip() on a prompt over Chars.                                     *)
(***************************************************************************)
RECURSIVE LStrip(_)
LStrip(s) == IF s # <<>> /\ Head(s) = " " THEN LStrip(Tail(s)) ELSE s

RECURSIVE RStrip(_)
RStrip(s) ==
    IF s # <<>> /\ s[Len(s)] = " " THEN RStrip(SubSeq(s, 1, Len(s) - 1)) ELSE s

Strip(s) == RStrip(LStrip(s))

(***************************************************************************)
(* utils/canonical.py: canonicalize_request.  A request is a record        *)
(* [prompt, models, temperature, max_tokens, timeout_s, synthesis_method]; *)
(* models is [given, ids] as in `requested`.  temperature and timeout_s    *)
(* are floats of integral value, held as integers.                         *)
(***************************************************************************)
SynthesisMethods == {"longest_nonempty", "consensus_overlap", "best_of_n"}

\* schemas.py 10-15: the defaults of EvaluateRequest.
DefaultParams ==
    [temperature |-> 0, max_tokens |-> 512, timeout_s |-> 15,
     synthesis_method |-> "longest_nonempty"]

Request(p, req, params) ==
    [prompt |-> p, models |-> req, temperature |-> params.temperature,
     max_tokens |-> params.max_tokens, timeout_s |-> params.timeout_s,
     synthesis_method |-> params.synthesis_method]

\* Order of str on the model ids (code points, left to right).
IdRank(id) ==
    CASE id = "gemini:disabled" -> 1
      [] id = "mock:echo" -> 2
      [] id = "nope:x" -> 3
      [] id = "openai:gpt-4o-mini" -> 4

\* sorted(models), line 16: a stable sort that keeps repeated ids.
RECURSIVE Insert(_, _)
Insert(s, x) ==
    IF s = <<>> THEN <<x>>
    ELSE IF IdRank(x) < IdRank(Head(s)) THEN <<x>> \o s
    ELSE <<Head(s)>> \o Insert(Tail(s), x)

RECURSIVE Sorted(_)
Sorted(s) == IF s = <<>> THEN <<>> ELSE Insert(Sorted(SubSeq(s, 1, Len(s) - 1)), s[Len(s)])

\* Variant: the id list is taken in the order of the request.
Canonical_KeepsOrder(request) ==
    [models |-> IF request.models.given THEN request.models.ids ELSE <<>>,
     prompt |-> Strip(request.prompt),
     params |-> [temperature |-> request.temperature, max_tokens |-> request.max_tokens,
                 timeout_s |-> request.timeout_s,
                 synthesis_method |-> request.synthesis_method]]

\* Lines 15-27: `request.models[:] if request.models else []` takes None and
\* the empty list alike.
Canonical(request) ==
    [models |-> Sorted(IF request.models.given /\ request.models.ids # <<>>
                       THEN request.models.ids ELSE <<>>),
     prompt |-> Strip(request.prompt),
     params |-> [temperature |-> request.temperature, max_tokens |-> request.max_tokens,
                 timeout_s |-> request.timeout_s,
                 synthesis_method |-> request.synthesis_method]]

\* json.dumps(..., sort_keys=True, separators=(",", ":")), line 28, as the
\* sequence of the characters and atoms written.
Digit(d) ==
    CASE d = 0 -> "0" [] d = 1 -> "1" [] d = 2 -> "2" [] d = 3 -> "3" [] d = 4 -> "4"
      [] d = 5 -> "5" [] d = 6 -> "6" [] d = 7 -> "7" [] d = 8 -> "8" [] d = 9 -> "9"

RECURSIVE JsonInt(_)
JsonInt(n) == IF n < 10 THEN <<Digit(n)>> ELSE JsonInt(n \div 10) \o <<Digit(n % 10)>>

JsonFloat(x) == JsonInt(x) \o <<".", "0">>

JsonString(s) == <<"\"">> \o s \o <<"\"">>

RECURSIVE JoinComma(_)
JoinComma(items) ==
    IF items = <<>> THEN <<>>
    ELSE IF Len(items) = 1 THEN items[1]
    ELSE items[1] \o <<",">> \o JoinComma(Tail(items))

JsonList(items) == <<"[">> \o JoinComma(items) \o <<"]">>

JsonMember(key, value) == JsonString(<<key>>) \o <<":">> \o value

JsonObject(members) == <<"{">> \o JoinComma(members) \o <<"}">>

JsonDumps(canonical) ==
    JsonObject(<<
        JsonMember("models", JsonList([k \in 1..Len(canonical.models) |->
                                          JsonString(<<canonical.models[k]>>)])),
        JsonMember("params", JsonObject(<<
            JsonMember("max_tokens", JsonInt(canonical.params.max_tokens)),
            JsonMember("synthesis_method", JsonString(<<canonical.params.synthesis_method>>)),
            JsonMember("temperature", JsonFloat(canonical.params.temperature)),
            JsonMember("timeout_s", JsonFloat(canonical.params.timeout_s))>>)),
        JsonMember("prompt", JsonString(canonical.prompt))>>)

\* hashlib.sha256(...).hexdigest(), line 29: the digest is taken as free of
\* collisions, one digest per byte string.
Sha256(bytes) == <<"sha256">> \o bytes

\* The run_hash of canonicalize_request.
RunHash(request) == Sha256(JsonDumps(Canonical(request)))

NoCanon == [request |-> None, run_hash |-> None]

\* The run store when no _persist_run and no reader is followed.
NoPersist ==
    [pc |-> "idle", response |-> None, raising |-> FALSE, logged |-> FALSE,
     attempts |-> <<>>]

NoSeen ==
    [op |-> None, returned |-> FALSE, arg |-> [run_id |-> None, limit |-> 0, status |-> None],
     raised |-> FALSE, result |-> [found |-> FALSE, data |-> None, entries |-> <<>>]]

\* Nothing given to the reducers.
NoReduce ==
    [pc |-> "idle", prompt |-> <<>>, method |-> None, generations |-> <<>>,
     synthesis |-> None, compare |-> None, results |-> <<>>]

\* Nothing given to redact_payload.
NoRedact == [pc |-> "idle", payload |-> None, once |-> None, twice |-> None]

\* No generate call.
NoCall ==
    [pc |-> "idle", api_key |-> <<>>, max_retries |-> 0, prompt |-> <<>>,
     attempt |-> 0, posts |-> <<>>, last_error |-> [null |-> TRUE, chars |-> <<>>],
     headers |-> <<>>, payload |-> [kind |-> "null"],
     sanitized_request |-> [url |-> None, headers |-> <<>>, body |-> [kind |-> "null"]],
     result |-> [text |-> [null |-> TRUE, chars |-> <<>>], raw_request |-> <<>>,
                 raw_response |-> <<>>, error_code |-> [null |-> TRUE, chars |-> <<>>]],
     document |-> [request |-> [prompt |-> <<>>], raw_generations |-> <<>>]]

StoreIdle ==
    /\ files = <<>>
    /\ persist = NoPersist
    /\ seen = NoSeen
    /\ reduce = NoReduce
    /\ redact = NoRedact
    /\ call = NoCall

(***************************************************************************)
(* The registry: every provider's list_models(), in registration order.    *)
(***************************************************************************)
ProviderModel(id, provider, available, reason) ==
    [id |-> id, provider |-> provider, available |-> available, reason |-> reason]

ListModels ==
    << ProviderModel("mock:echo", "mock", TRUE, None),
       ProviderModel("openai:gpt-4o-mini", "openai", TRUE, None),
       ProviderModel("gemini:disabled", "gemini", FALSE, "Gemini provider disabled") >>

KnownIds == {ListModels[k].id : k \in 1..Len(ListModels)}

RequestIds == KnownIds \cup {"nope:x"}

ModelById(id) == ListModels[CHOOSE k \in 1..Len(ListModels) : ListModels[k].id = id]

IsAvailable(m) == m.available

ResolveMissing(req) ==
    IF req.given THEN SelectSeq(req.ids, LAMBDA mid : mid \notin KnownIds) ELSE <<>>

\* A resolution that would filter the requested descriptors by availability.
ResolveModels_DropsUnavailable(req) ==
    IF ~req.given THEN SelectSeq(ListModels, IsAvailable)
    ELSE SelectSeq([k \in 1..Len(req.ids) |-> ModelById(req.ids[k])], IsAvailable)

ResolveModels(req) ==
    IF ~req.given THEN SelectSeq(ListModels, IsAvailable)
    ELSE [k \in 1..Len(req.ids) |-> ModelById(req.ids[k])]

(***************************************************************************)
(* evaluate, lines 59-69: the message of the ValueError, or None.          *)
(***************************************************************************)
\* Variant: the count of resolved models is not checked.
ValidationError_NoMaxCheck(p, req) ==
    IF Strip(p) = <<>> THEN "Prompt cannot be empty"
    ELSE IF Len(Strip(p)) > MaxPromptChars THEN "Prompt exceeds maximum length"
    ELSE IF ResolveMissing(req) # <<>> THEN "Unknown model(s)"
    ELSE IF ResolveModels(req) = <<>> THEN "No models available for evaluation"
    ELSE None

ValidationError(p, req) ==
    IF Strip(p) = <<>> THEN "Prompt cannot be empty"
    ELSE IF Len(Strip(p)) > MaxPromptChars THEN "Prompt exceeds maximum length"
    ELSE IF ResolveMissing(req) # <<>> THEN "Unknown model(s)"
    ELSE IF ResolveModels(req) = <<>> THEN "No models available for evaluation"
    ELSE IF Len(ResolveModels(req)) > MaxModelsPerRequest THEN "Too many models requested"
    ELSE None

\* The exception raised: its message, and for "Unknown model(s)" the ids the
\* message of registry.py line 44 names; that message names no available id
\* ("Call GET /models to inspect registry.").
NoError == [message |-> None, ids |-> <<>>, available |-> <<>>]

ValueError(message, req) ==
    [message |-> message,
     ids |-> IF message = "Unknown model(s)" THEN ResolveMissing(req) ELSE <<>>,
     available |-> <<>>]

(***************************************************************************)
(* GenerationResult (providers/base.py) and the results built by           *)
(* _safe_generate, _gather and the providers.  meta is None (present =     *)
(* FALSE) or a dict; latency_ms is None or a measured value.               *)
(***************************************************************************)
MetaNone == [present |-> FALSE, cancel_reason |-> None]

MetaDict(reason) == [present |-> TRUE, cancel_reason |-> reason]

GenerationResult(model_id, provider, text, meta, latency_ms, error_code, error_message) ==
    [model_id |-> model_id, provider |-> provider, text |-> text, meta |-> meta,
     latency_ms |-> latency_ms, error_code |-> error_code, error_message |-> error_message]

NoResult == GenerationResult(None, None, None, MetaNone, None, None, None)

GenOk(gen) == gen.error_code = None /\ gen.error_message = None

UnavailableResult(model) ==
    GenerationResult(model.id, model.provider, None, MetaNone, "measured", "unavailable",
                     IF model.reason # None THEN model.reason ELSE "Model unavailable")

\* Variant: the timeout falls into the generic exception handler.
TimeoutResult_AsProviderError(model) ==
    GenerationResult(model.id, model.provider, None, MetaNone, "measured", "provider_error",
                     "timeout after timeout_s")

TimeoutResult(model) ==
    GenerationResult(model.id, model.provider, None, MetaNone, "measured", "timeout",
                     "timeout after timeout_s")

ProviderErrorResult(model, exc) ==
    GenerationResult(model.id, model.provider, None, MetaNone, "measured", "provider_error", exc)

\* model_id.split(":", 1)[0]
ProviderPrefix(model_id) ==
    CASE model_id = "mock:echo" -> "mock"
      [] model_id = "openai:gpt-4o-mini" -> "openai"
      [] model_id = "gemini:disabled" -> "gemini"
      [] OTHER -> model_id

CancelledResult(model_id, reason) ==
    GenerationResult(model_id, ProviderPrefix(model_id), None, MetaDict(reason), None, "cancelled",
                     IF reason # None THEN reason ELSE "Cancelled")

\* What a provider's generate returns when it returns: a generation, or the
\* provider's own error result (mock.py 45-64, openai.py 79-114).
ProviderReturn(model, succeeded) ==
    IF succeeded
    THEN GenerationResult(model.id, model.provider, "generated text", MetaDict(None),
                          "measured", None, None)
    ELSE GenerationResult(model.id, model.provider, None, MetaNone, "measured",
                          IF model.provider = "mock" THEN "mock_error" ELSE "http_500",
                          "generation failed")

\* openai.py 75-92: the reply is accepted whatever choices[0].message.content
\* holds; a null content gives a result without error and without text.
NullContentReturn(model) ==
    GenerationResult(model.id, model.provider, None, MetaDict(None), "measured", None, None)

Exceptions == {"connection reset", "bad gateway"}

(***************************************************************************)
(* The dict `tasks` of _gather: tasks[model.id] = task keeps the position  *)
(* of the first insertion of a key and the value of the last.              *)
(***************************************************************************)
DictPut(d, key, val) ==
    IF \E k \in 1..Len(d) : d[k].id = key
    THEN [k \in 1..Len(d) |-> IF d[k].id = key THEN [id |-> key, unit |-> val] ELSE d[k]]
    ELSE Append(d, [id |-> key, unit |-> val])

RECURSIVE BuildTasks(_, _)
BuildTasks(models, n) ==
    IF n = 0 THEN <<>> ELSE DictPut(BuildTasks(models, n - 1), models[n].id, n)

TaskUnits(d) == {d[k].unit : k \in 1..Len(d)}

(***************************************************************************)
(* _map_generation, _status and GenerationResult.ok.                       *)
(***************************************************************************)
MapStatus(gen) ==
    IF gen.error_code = "timeout" THEN "timeout"
    ELSE IF gen.error_code # None THEN "error"
    ELSE "success"

MapGeneration(gen) ==
    [model |-> gen.model_id, provider |-> gen.provider, ok |-> GenOk(gen),
     status |-> MapStatus(gen), text |-> gen.text, error_code |-> gen.error_code,
     error_message |-> gen.error_message, latency_ms |-> gen.latency_ms, meta |-> gen.meta]

Successes(rs) == SelectSeq(rs, LAMBDA r : r.ok)

\* Variant: "any success" is tested before "all succeeded".
Status_PartialFirst(rs) ==
    IF Successes(rs) # <<>> THEN "partial"
    ELSE IF Len(Successes(rs)) = Len(rs) THEN "success"
    ELSE "failed"

Status(rs) ==
    IF Len(Successes(rs)) = Len(rs) THEN "success"
    ELSE IF Successes(rs) # <<>> THEN "partial"
    ELSE "failed"

NoResponse ==
    [run_hash |-> None, models |-> <<>>, results |-> <<>>, status |-> None,
     partial_success |-> FALSE]

\* Variant: the hash is taken over the request and the status of the run.
BuildResponse_HashesOutcome(models, gens, hash) ==
    LET rs == [k \in 1..Len(gens) |-> MapGeneration(gens[k])]
    IN  [run_hash |-> Append(hash, Status(rs)),
         models |-> [k \in 1..Len(models) |-> models[k].id],
         results |-> rs,
         status |-> Status(rs),
         partial_success |-> (Status(rs) = "partial")]

BuildResponse(models, gens, hash) ==
    LET rs == [k \in 1..Len(gens) |-> MapGeneration(gens[k])]
    IN  [run_hash |-> hash,
         models |-> [k \in 1..Len(models) |-> models[k].id],
         results |-> rs,
         status |-> Status(rs),
         partial_success |-> (Status(rs) = "partial")]

(***************************************************************************)
(* _gather, lines 163-167: the reason chosen once asyncio.wait is over.    *)
(***************************************************************************)
CancelReason_TimeoutByDefault(mon, allDone) ==
    IF mon = "done_true" THEN "client_disconnected" ELSE "run_timeout"

CancelReason(mon, allDone) ==
    IF mon = "done_true" THEN "client_disconnected"
    ELSE IF ~allDone THEN "run_timeout"
    ELSE None

(***************************************************************************)
(* State.                                                                  *)
(***************************************************************************)
Unit(state, result, event, calls) ==
    [state |-> state, result |-> result, event |-> event, calls |-> calls]

UnitIds == DOMAIN units

Running == {i \in UnitIds : units[i].state = "running"}

\* task.done(): the task returned, raised or was cancelled.
TaskDone(u) == u.state \in {"done", "failed", "cancelled"}

AllStarted == \A i \in UnitIds : units[i].state # "created"

AllAwaitedDone == \A i \in TaskUnits(tasks) : TaskDone(units[i])

NoWait == [cause |-> None, running_at_end |-> {}, abort_reported |-> FALSE,
           running_at_abort |-> {}]

Init ==
    /\ prompt \in Prompts
    /\ requested \in [given : {FALSE}, ids : {<<>>}]
                     \cup [given : {TRUE}, ids : SeqsUpTo(RequestIds, MaxRequested)]
    /\ client \in BOOLEAN
    /\ phase = "start"
    /\ error = NoError
    /\ selected = <<>>
    /\ units = <<>>
    /\ tasks = <<>>
    /\ monitor = "none"
    /\ disconnected = FALSE
    /\ wait = NoWait
    /\ cancel_reason = None
    /\ results = <<>>
    /\ response = NoResponse
    /\ runs = {}
    /\ run_hash = None
    /\ canon = NoCanon
    /\ StoreIdle

\* evaluate, lines 59-69: a ValueError leaves evaluate before anything starts.
Reject ==
    /\ phase = "start"
    /\ ValidationError(prompt, requested) # None
    /\ phase' = "rejected"
    /\ error' = ValueError(ValidationError(prompt, requested), requested)
    /\ UNCHANGED <<prompt, requested, client, selected, units, tasks, monitor,
                   disconnected, wait, cancel_reason, results, response, runs, run_hash>>
    /\ UNCHANGED auxVars

\* evaluate, lines 59-94, and _gather up to its await of asyncio.wait
\* (lines 137-158): the tasks are created, none has run yet.
Dispatch ==
    /\ phase = "start"
    /\ ValidationError(prompt, requested) = None
    /\ LET models == ResolveModels(requested)
       IN  /\ selected' = models
           /\ units' = [i \in 1..Len(models) |-> Unit("created", NoResult, None, 0)]
           /\ tasks' = BuildTasks(models, Len(models))
    /\ prompt' = Strip(prompt)
    /\ run_hash' = RunHash(Request(prompt, requested, DefaultParams))
    /\ monitor' = IF client THEN "pending" ELSE "none"
    /\ phase' = "waiting"
    /\ UNCHANGED <<requested, client, error, disconnected, wait, cancel_reason,
                   results, response, runs>>
    /\ UNCHANGED auxVars

\* _safe_generate, lines 216-235: the first step of a unit.  The tasks take
\* their first step in creation order, before any timer or the monitor.
\* Variant: the availability flag is not looked at.
StartUnit_IgnoresAvailability(u, model) ==
    Unit("running", u.result, u.event, u.calls + 1)

StartUnit(u, model) ==
    IF ~model.available
    THEN Unit("done", UnavailableResult(model), "unavailable", u.calls)
    ELSE Unit("running", u.result, u.event, u.calls + 1)

UnitStart(i) ==
    /\ phase = "waiting"
    /\ units[i].state = "created"
    /\ \A j \in 1..(i - 1) : units[j].state # "created"
    /\ units' = [units EXCEPT ![i] = StartUnit(units[i], selected[i])]
    /\ UNCHANGED <<prompt, requested, client, phase, error, selected, tasks, monitor,
                   disconnected, wait, cancel_reason, results, response, runs, run_hash>>
    /\ UNCHANGED auxVars

\* provider.generate returns (line 233).
UnitReturn(i, succeeded) ==
    /\ units[i].state = "running"
    /\ units' = [units EXCEPT ![i] =
                    Unit("done", ProviderReturn(selected[i], succeeded), "returned", @.calls)]
    /\ UNCHANGED <<prompt, requested, client, phase, error, selected, tasks, monitor,
                   disconnected, wait, cancel_reason, results, response, runs, run_hash>>
    /\ UNCHANGED auxVars

\* provider.generate of the OpenAI provider returns a reply of null content.
UnitReturnNullContent(i) ==
    /\ units[i].state = "running"
    /\ selected[i].provider = "openai"
    /\ units' = [units EXCEPT ![i] =
                    Unit("done", NullContentReturn(selected[i]), "returned", @.calls)]
    /\ UNCHANGED <<prompt, requested, client, phase, error, selected, tasks, monitor,
                   disconnected, wait, cancel_reason, results, response, runs, run_hash>>
    /\ UNCHANGED auxVars

\* provider.generate raises an Exception (lines 250-263): the handler turns
\* it into a result, the task does not fail.
\* Variant: the exception escapes _safe_generate and ends the task.
OnException_Escapes(u, model, exc) == Unit("failed", u.result, exc, u.calls)

OnException(u, model, exc) == Unit("done", ProviderErrorResult(model, exc), exc, u.calls)

UnitRaise(i, exc) ==
    /\ units[i].state = "running"
    /\ units' = [units EXCEPT ![i] = OnException(units[i], selected[i], exc)]
    /\ UNCHANGED <<prompt, requested, client, phase, error, selected, tasks, monitor,
                   disconnected, wait, cancel_reason, results, response, runs, run_hash>>
    /\ UNCHANGED auxVars

\* asyncio.wait_for runs out of timeout_s (lines 236-249).
UnitTimeout(i) ==
    /\ units[i].state = "running"
    /\ units' = [units EXCEPT ![i] =
                    Unit("done", TimeoutResult(selected[i]), "timed_out", @.calls)]
    /\ UNCHANGED <<prompt, requested, client, phase, error, selected, tasks, monitor,
                   disconnected, wait, cancel_reason, results, response, runs, run_hash>>
    /\ UNCHANGED auxVars

\* The task of a unit that _gather cancelled ends with CancelledError.
UnitCancelled(i) ==
    /\ units[i].state = "cancelling"
    /\ units' = [units EXCEPT ![i] = Unit("cancelled", @.result, "cancelled", @.calls)]
    /\ UNCHANGED <<prompt, requested, client, phase, error, selected, tasks, monitor,
                   disconnected, wait, cancel_reason, results, response, runs, run_hash>>
    /\ UNCHANGED auxVars

\* The transport loses its client.
ClientDisconnect ==
    /\ client
    /\ ~disconnected
    /\ phase \in {"waiting", "collecting"}
    /\ disconnected' = TRUE
    /\ UNCHANGED <<prompt, requested, client, phase, error, selected, units, tasks,
                   monitor, wait, cancel_reason, results, response, runs, run_hash>>
    /\ UNCHANGED auxVars

\* _monitor_disconnect, lines 341-344: a poll answers True.  (A poll that
\* answers False sleeps and polls again: no change of state.)
MonitorDetect ==
    /\ monitor = "pending"
    /\ AllStarted
    /\ disconnected
    /\ monitor' = "done_true"
    /\ wait' = IF phase = "waiting" THEN [wait EXCEPT !.running_at_abort = Running] ELSE wait
    /\ UNCHANGED <<prompt, requested, client, phase, error, selected, units, tasks,
                   disconnected, cancel_reason, results, response, runs, run_hash>>
    /\ UNCHANGED auxVars

\* Variant: a poll that raises is taken for a disconnect.
MonitorPollRaises_ReportsDisconnect ==
    /\ monitor = "pending"
    /\ AllStarted
    /\ monitor' = "done_true"
    /\ UNCHANGED <<prompt, requested, client, phase, error, selected, units, tasks,
                   disconnected, wait, cancel_reason, results, response, runs, run_hash>>
    /\ UNCHANGED auxVars

\* _monitor_disconnect, lines 345-346: a poll raises.
MonitorPollRaises ==
    /\ monitor = "pending"
    /\ AllStarted
    /\ monitor' = "done_false"
    /\ UNCHANGED <<prompt, requested, client, phase, error, selected, units, tasks,
                   disconnected, wait, cancel_reason, results, response, runs, run_hash>>
    /\ UNCHANGED auxVars

\* _gather, lines 163-172, run when asyncio.wait is over: choose the reason,
\* cancel every task of the dict that is not done.
AfterWait(cause) ==
    LET reason == CancelReason(monitor, AllAwaitedDone)
    IN  /\ cancel_reason' = reason
        /\ units' = [i \in UnitIds |->
                        IF reason # None /\ i \in TaskUnits(tasks) /\ ~TaskDone(units[i])
                        THEN [units[i] EXCEPT !.state = "cancelling"]
                        ELSE units[i]]
        /\ wait' = [wait EXCEPT !.cause = cause, !.running_at_end = Running,
                                !.abort_reported = (monitor = "done_true")]
        /\ phase' = "collecting"
        /\ UNCHANGED <<prompt, requested, client, error, selected, tasks, monitor,
                       disconnected, results, response, runs, run_hash>>
        /\ UNCHANGED auxVars

\* asyncio.wait (lines 157-159, return_when = ALL_COMPLETED): every awaited
\* task, the monitor included, is done.
WaitAllDone ==
    /\ phase = "waiting"
    /\ AllAwaitedDone
    /\ monitor # "pending"
    /\ AfterWait("all_done")

\* asyncio.wait: run_timeout_s elapses with an awaited task still pending.
WaitTimeout ==
    /\ phase = "waiting"
    /\ AllStarted
    /\ ~(AllAwaitedDone /\ monitor # "pending")
    /\ AfterWait("timeout")

\* _gather, lines 175-192: await the next task of the dict and append.
Collected(u, model_id, reason) ==
    IF u.state = "cancelled" THEN CancelledResult(model_id, reason) ELSE u.result

Collect ==
    /\ phase = "collecting"
    /\ Len(results) < Len(tasks)
    /\ LET t == tasks[Len(results) + 1]
           u == units[t.unit]
       IN  /\ TaskDone(u)
           /\ IF u.state = "failed"
              THEN \* `await task` re-raises what the task raised
                   /\ phase' = "raised"
                   /\ error' = [NoError EXCEPT !.message = u.event]
                   /\ results' = results
              ELSE /\ results' = Append(results, Collected(u, t.id, cancel_reason))
                   /\ UNCHANGED <<phase, error>>
    /\ UNCHANGED <<prompt, requested, client, selected, units, tasks,
                   monitor, disconnected, wait, cancel_reason, response, runs, run_hash>>
    /\ UNCHANGED auxVars

\* _gather, lines 194-199, and evaluate, lines 96-124: the monitor is
\* cancelled, the response assembled and the run file written.
Return ==
    /\ phase = "collecting"
    /\ Len(results) = Len(tasks)
    /\ monitor' = IF monitor = "pending" THEN "cancelled" ELSE monitor
    /\ response' = BuildResponse(selected, results, run_hash)
    /\ runs' = runs \cup {[request_id |-> "run-1",
                            status |-> BuildResponse(selected, results, run_hash).status]}
    /\ phase' = "returned"
    /\ UNCHANGED <<prompt, requested, client, error, selected, units, tasks,
                   disconnected, wait, cancel_reason, results, run_hash>>
    /\ UNCHANGED auxVars

\* evaluate, lines 103-104: synthesize or _compare raises; nothing catches
\* it, evaluate is left by the exception after _gather has finished.
ReducerRaises(step) ==
    /\ phase = "collecting"
    /\ Len(results) = Len(tasks)
    /\ monitor' = IF monitor = "pending" THEN "cancelled" ELSE monitor
    /\ phase' = "reducer_raised"
    /\ error' = [NoError EXCEPT !.message = step]
    /\ UNCHANGED <<prompt, requested, client, selected, units, tasks, disconnected,
                   wait, cancel_reason, results, response, runs, run_hash>>
    /\ UNCHANGED auxVars

Next ==
    \/ Reject
    \/ Dispatch
    \/ \E i \in UnitIds : UnitStart(i)
    \/ \E i \in UnitIds, succeeded \in BOOLEAN : UnitReturn(i, succeeded)
    \/ \E i \in UnitIds : UnitReturnNullContent(i)
    \/ \E i \in UnitIds, exc \in Exceptions : UnitRaise(i, exc)
    \/ \E i \in UnitIds : UnitTimeout(i)
    \/ \E i \in UnitIds : UnitCancelled(i)
    \/ ClientDisconnect
    \/ MonitorDetect
    \/ MonitorPollRaises
    \/ WaitAllDone
    \/ WaitTimeout
    \/ Collect
    \/ \E step \in {"synthesis", "compare"} : ReducerRaises(step)
    \/ Return

Spec == Init /\ [][Next]_vars

(***************************************************************************)
(* canonicalize_request on its own: a request is drawn, then hashed.       *)
(***************************************************************************)
MaxCanonModels == 2        \* length of the id list of a hashed request

engineVars == <<prompt, requested, client, phase, error, selected, units, tasks,
                monitor, disconnected, wait, cancel_reason, results, response, runs,
                run_hash>>

CanonIds == {"mock:echo", "gemini:disabled"}

CanonModels ==
    [given : {FALSE}, ids : {<<>>}] \cup [given : {TRUE}, ids : SeqsUpTo(CanonIds, MaxCanonModels)]

\* The defaults, and each parameter moved alone within the range schemas.py
\* 10-15 accepts.
CanonParams ==
    {DefaultParams,
     [DefaultParams EXCEPT !.temperature = 1],
     [DefaultParams EXCEPT !.max_tokens = 51],
     [DefaultParams EXCEPT !.timeout_s = 5]}
    \cup {[DefaultParams EXCEPT !.synthesis_method = m] : m \in SynthesisMethods}

CanonRequests == {Request(p, m, par) : p \in Prompts, m \in CanonModels, par \in CanonParams}

\* No evaluate call is in progress.
EngineIdle ==
    /\ prompt = <<>>
    /\ requested = [given |-> FALSE, ids |-> <<>>]
    /\ client = FALSE
    /\ phase = "idle"
    /\ error = NoError
    /\ selected = <<>>
    /\ units = <<>>
    /\ tasks = <<>>
    /\ monitor = "none"
    /\ disconnected = FALSE
    /\ wait = NoWait
    /\ cancel_reason = None
    /\ results = <<>>
    /\ response = NoResponse
    /\ runs = {}
    /\ run_hash = None

InitCanon ==
    /\ EngineIdle
    /\ StoreIdle
    /\ canon \in [request : CanonRequests, run_hash : {None}]

Canonicalize ==
    /\ canon.run_hash = None
    /\ canon' = [canon EXCEPT !.run_hash = RunHash(canon.request)]
    /\ UNCHANGED engineVars
    /\ UNCHANGED <<files, persist, seen, reduce, redact, call>>

NextCanon == Canonicalize

SpecCanon == InitCanon /\ [][NextCanon]_vars

(***************************************************************************)
(* The run store: _persist_run, list_runs and get_run over the runs        *)
(* directory.  A file name is [stem, ext]; a file is [exists, readable,    *)
(* content], its content the sequence of characters and atoms written.     *)
(* A reader is another thread or process: each of its calls is one step    *)
(* that may fall between any two file operations of _persist_run.          *)
(***************************************************************************)
RunIds == {"r1", "r2", "r3"}

\* A run id that would repeat the id of a run persisted earlier.
NewRunId_Reused == "r1"

\* uuid4().hex of the evaluate call that persists (line 81): a fresh id.
NewRunId == "r2"

TmpPath(request_id) == [stem |-> request_id, ext |-> ".json.tmp"]

FinalPath(run_id) == [stem |-> run_id, ext |-> ".json"]

FileNames ==
    {FinalPath(id) : id \in RunIds} \cup {TmpPath(NewRunId), [stem |-> "notes", ext |-> ".txt"]}

Absent == [exists |-> FALSE, readable |-> FALSE, content |-> <<>>]

File(content) == [exists |-> TRUE, readable |-> TRUE, content |-> content]

\* Order of str on the file names of the directory.
NameRank(name) ==
    CASE name.stem = "notes" -> 1
      [] name.stem = "r1" -> 2
      [] name.stem = "r2" /\ name.ext = ".json" -> 3
      [] name.stem = "r2" /\ name.ext = ".json.tmp" -> 4
      [] name.stem = "r3" -> 5

\* sorted(os.listdir(runs_dir), reverse=True), line 427.
RECURSIVE SortedNamesDesc(_)
SortedNamesDesc(names) ==
    IF names = {} THEN <<>>
    ELSE LET top == CHOOSE n \in names : \A m \in names : NameRank(m) <= NameRank(n)
         IN  <<top>> \o SortedNamesDesc(names \ {top})

ListDir(fs) == {n \in FileNames : fs[n].exists}

\* The run document of lines 380-404, by the keys the readers look at.
RunStatuses == {"success", "partial", "failed"}

StoredResponse(request_id, hash, status) ==
    [request_id |-> request_id, run_hash |-> hash, status |-> status]

\* Variant: the document is written without its run_hash.
Payload_DropsRunHash(request_id, resp) ==
    [request_id |-> request_id, run_hash |-> None, response |-> resp]

Payload(request_id, resp) ==
    [request_id |-> request_id, run_hash |-> resp.run_hash, response |-> resp]

Documents ==
    {Payload(id, StoredResponse(id, "h1", st)) : id \in RunIds, st \in RunStatuses}

\* json.dump(payload, f, sort_keys=True), line 408.
JsonValue(v) == IF v = None THEN <<"null">> ELSE JsonString(<<v>>)

JsonDumpDocument(doc) ==
    JsonObject(<<
        JsonMember("request_id", JsonValue(doc.request_id)),
        JsonMember("response", JsonObject(<<
            JsonMember("request_id", JsonValue(doc.response.request_id)),
            JsonMember("run_hash", JsonValue(doc.response.run_hash)),
            JsonMember("status", JsonValue(doc.response.status))>>)),
        JsonMember("run_hash", JsonValue(doc.run_hash))>>)

\* json.load, lines 433 and 456: the document that was dumped, a value that
\* is not a dict, or a JSONDecodeError.
NotADict == <<"[", "]">>

DocumentOfText == [text \in {JsonDumpDocument(d) : d \in Documents} |->
                      CHOOSE d \in Documents : JsonDumpDocument(d) = text]

JsonLoad(content) ==
    IF content \in DOMAIN DocumentOfText
    THEN [error |-> FALSE, isdict |-> TRUE, data |-> DocumentOfText[content]]
    ELSE IF content = NotADict
    THEN [error |-> FALSE, isdict |-> FALSE, data |-> None]
    ELSE [error |-> TRUE, isdict |-> FALSE, data |-> None]

\* The first half of a content: what a write has put in the file when it is
\* interrupted or observed half-way.
FirstHalf(content) == SubSeq(content, 1, Len(content) \div 2)

\* list_runs, lines 424-449.  acc is [entries, raised, stop]; stop is the
\* break of line 446.
Summary(data) ==
    [run_id |-> data.request_id, status |-> data.response.status, run_hash |-> data.run_hash]

\* Variant: an exception met on a file ends list_runs.
OnFileError_Raises(acc) == [acc EXCEPT !.raised = TRUE, !.stop = TRUE]

\* Lines 447-448: `except Exception: continue`.
OnFileError(acc) == acc

\* Lines 431-448, one file: open raises on an unreadable file, json.load on a
\* corrupt one, data.get on a value that is not a dict.
VisitFile(file, acc, limit, status) ==
    LET loaded == JsonLoad(file.content)
    IN  IF ~file.readable \/ loaded.error \/ ~loaded.isdict
        THEN OnFileError(acc)
        ELSE IF status # None /\ loaded.data.response.status # status
        THEN acc
        ELSE LET entries == Append(acc.entries, Summary(loaded.data))
             IN  [acc EXCEPT !.entries = entries, !.stop = (Len(entries) >= limit)]

RECURSIVE ListRunsFrom(_, _, _, _, _)
ListRunsFrom(fs, names, acc, limit, status) ==
    IF names = <<>> \/ acc.stop THEN acc
    ELSE IF Head(names).ext # ".json"
    THEN ListRunsFrom(fs, Tail(names), acc, limit, status)
    ELSE ListRunsFrom(fs, Tail(names), VisitFile(fs[Head(names)], acc, limit, status),
                      limit, status)

ListRuns(fs, limit, status) ==
    ListRunsFrom(fs, SortedNamesDesc(ListDir(fs)),
                 [entries |-> <<>>, raised |-> FALSE, stop |-> FALSE], limit, status)

\* get_run, lines 451-456: nothing shields open and json.load.
GetRun(fs, run_id) ==
    LET file == fs[FinalPath(run_id)]
        loaded == JsonLoad(file.content)
    IN  IF ~file.exists THEN [raised |-> FALSE, found |-> FALSE, data |-> None]
        ELSE IF ~file.readable \/ loaded.error
        THEN [raised |-> TRUE, found |-> FALSE, data |-> None]
        ELSE [raised |-> FALSE, found |-> TRUE,
              data |-> IF loaded.isdict THEN loaded.data ELSE NotADict]

(***************************************************************************)
(* _persist_run, lines 348-422, one action per file operation; `ok` tells  *)
(* whether the operation succeeds or raises an OSError.  The pc "returned" *)
(* is evaluate returning its response (line 124), "raised" is the          *)
(* exception leaving _persist_run and, nothing catching it at line 123,    *)
(* evaluate.                                                               *)
(***************************************************************************)
MaxLimit == 2              \* largest limit passed to list_runs

Tmp == TmpPath(NewRunId)

Final == FinalPath(NewRunId)

PayloadText == JsonDumpDocument(Payload(NewRunId, persist.response))

\* os.replace(src, dst): one atomic step of the file system.
Replace(fs, src, dst) == [fs EXCEPT ![dst] = fs[src], ![src] = Absent]

\* Files found in the directory before the run is written.
OldFiles(id, status) ==
    LET text == JsonDumpDocument(Payload(id, StoredResponse(id, "h1", status)))
    IN  {Absent, File(text), File(FirstHalf(text)), [File(text) EXCEPT !.readable = FALSE],
         File(NotADict)}

InitialDirs ==
    {[n \in FileNames |->
        CASE n = FinalPath("r1") -> f1
          [] n = FinalPath("r3") -> f3
          [] n.stem = "notes" -> File(<<"n">>)
          [] OTHER -> Absent] :
     f1 \in OldFiles("r1", "success"),
     f3 \in {f \in OldFiles("r3", "failed") : f.exists /\ f.readable /\ f.content # NotADict}}

InitStore ==
    /\ EngineIdle
    /\ canon = NoCanon
    /\ files \in InitialDirs
    /\ persist \in {[NoPersist EXCEPT !.pc = "makedirs",
                                      !.response = StoredResponse(NewRunId, "h1", st)] :
                    st \in {"success", "failed"}}
    /\ seen = NoSeen
    /\ reduce = NoReduce
    /\ redact = NoRedact
    /\ call = NoCall

outsideStore == <<engineVars, canon, reduce, redact, call>>

\* Line 358.
PersistMakedirs(ok) ==
    /\ persist.pc = "makedirs"
    /\ persist' = [persist EXCEPT !.pc = IF ok THEN "open_tmp" ELSE "raised"]
    /\ UNCHANGED <<files, seen, outsideStore>>

\* Line 407: open(tmp_path, "w") creates the file empty.
PersistOpenTmp(ok) ==
    /\ persist.pc = "open_tmp"
    /\ files' = IF ok THEN [files EXCEPT ![Tmp] = File(<<>>)] ELSE files
    /\ persist' = [persist EXCEPT !.pc = IF ok THEN "dump" ELSE "raised"]
    /\ UNCHANGED <<seen, outsideStore>>

\* Line 408: json.dump; a write that fails leaves what was written so far.
PersistDump(ok) ==
    /\ persist.pc = "dump"
    /\ files' = [files EXCEPT ![Tmp] =
                    File(IF ok THEN PayloadText ELSE FirstHalf(PayloadText))]
    /\ persist' = [persist EXCEPT !.pc = IF ok THEN "rename" ELSE "raised"]
    /\ UNCHANGED <<seen, outsideStore>>

\* Lines 409-411.
PersistRename(ok) ==
    /\ persist.pc = "rename"
    /\ files' = IF ok THEN Replace(files, Tmp, Final) ELSE files
    /\ persist' = [persist EXCEPT !.pc = IF ok THEN "returned" ELSE "remove_rename",
                                  !.attempts = Append(@, "rename")]
    /\ UNCHANGED <<seen, outsideStore>>

\* Lines 412-416.
PersistRemoveRename(ok) ==
    /\ persist.pc = "remove_rename"
    /\ LET removed == [files EXCEPT ![Final] = Absent]
       IN  files' \in IF ok THEN {Replace(removed, Tmp, Final)} ELSE {files, removed}
    /\ persist' = [persist EXCEPT !.pc = IF ok THEN "returned" ELSE "copy_open",
                                  !.attempts = Append(@, "remove_rename")]
    /\ UNCHANGED <<seen, outsideStore>>

\* Line 418: shutil.copyfile opens the final path for writing, ...
PersistCopyOpen(ok) ==
    /\ persist.pc = "copy_open"
    /\ files' = IF ok THEN [files EXCEPT ![Final] = File(<<>>)] ELSE files
    /\ persist' = [persist EXCEPT !.pc = IF ok THEN "copy_write" ELSE "cleanup",
                                  !.raising = ~ok,
                                  !.attempts = Append(@, "copy")]
    /\ UNCHANGED <<seen, outsideStore>>

\* ... then copies the bytes of the temporary file into it.
PersistCopyWrite(ok) ==
    /\ persist.pc = "copy_write"
    /\ files' = [files EXCEPT ![Final] =
                    File(IF ok THEN files[Tmp].content ELSE FirstHalf(files[Tmp].content))]
    /\ persist' = [persist EXCEPT !.pc = "cleanup", !.raising = ~ok]
    /\ UNCHANGED <<seen, outsideStore>>

\* Lines 419-422, the finally: os.remove(tmp_path) with its error suppressed,
\* the warning, then the exception of copyfile, if any, goes on.
PersistCleanup(ok) ==
    /\ persist.pc = "cleanup"
    /\ files' = IF ok THEN [files EXCEPT ![Tmp] = Absent] ELSE files
    /\ persist' = [persist EXCEPT !.pc = IF persist.raising THEN "raised" ELSE "returned",
                                  !.logged = TRUE]
    /\ UNCHANGED <<seen, outsideStore>>

\* A reader calls get_run(run_id).
ReadGetRun(run_id) ==
    /\ persist.pc # "idle"
    /\ LET got == GetRun(files, run_id)
       IN  seen' = [op |-> "get_run", returned |-> (persist.pc = "returned"),
                    arg |-> [run_id |-> run_id, limit |-> 0, status |-> None],
                    raised |-> got.raised,
                    result |-> [found |-> got.found, data |-> got.data, entries |-> <<>>]]
    /\ UNCHANGED <<files, persist, outsideStore>>

\* A reader calls list_runs(limit, status).
ReadListRuns(limit, status) ==
    /\ persist.pc # "idle"
    /\ LET got == ListRuns(files, limit, status)
       IN  seen' = [op |-> "list_runs", returned |-> (persist.pc = "returned"),
                    arg |-> [run_id |-> None, limit |-> limit, status |-> status],
                    raised |-> got.raised,
                    result |-> [found |-> FALSE, data |-> None, entries |-> got.entries]]
    /\ UNCHANGED <<files, persist, outsideStore>>

NextStore ==
    \/ \E ok \in BOOLEAN : PersistMakedirs(ok)
    \/ \E ok \in BOOLEAN : PersistOpenTmp(ok)
    \/ \E ok \in BOOLEAN : PersistDump(ok)
    \/ \E ok \in BOOLEAN : PersistRename(ok)
    \/ \E ok \in BOOLEAN : PersistRemoveRename(ok)
    \/ \E ok \in BOOLEAN : PersistCopyOpen(ok)
    \/ \E ok \in BOOLEAN : PersistCopyWrite(ok)
    \/ \E ok \in BOOLEAN : PersistCleanup(ok)
    \/ \E run_id \in RunIds : ReadGetRun(run_id)
    \/ \E limit \in 0..MaxLimit, status \in {None, "success"} :
           ReadListRuns(limit, status)

SpecStore == InitStore /\ [][NextStore]_vars

(***************************************************************************)
(* The reducers of evaluate: MultiStrategySynthesizer (synthesis/          *)
(* aggregator.py) and EvaluationEngine._compare.  A text is null or a      *)
(* string, a string is a sequence of characters; re.split, re.findall,     *)
(* str.lower and str.strip are computed character by character.  Scores    *)
(* are exact fractions [num, den] with den > 0.                            *)
(***************************************************************************)
NullText == [null |-> TRUE, chars |-> <<>>]

Str(chars) == [null |-> FALSE, chars |-> chars]

\* `if gen.text`: None and "" are false, every other string is true.
Truthy(text) == ~text.null /\ text.chars # <<>>

\* The strings a provider returns in the model.
Texts ==
    {<<>>, <<"\n">>, <<"a">>, <<"A">>, <<"b">>, <<"a", "\n", "b">>, <<"a", ".", " ", "b">>,
     <<"a", "a", "a">>, <<"a", " ", "a">>, <<" ", "b">>}

\* re.findall(r"\b\w+\b", text.lower()): the maximal runs of word characters,
\* str.lower taken on the characters of Texts.
Tokens(chars) ==
    LET Lower(c) == IF c = "A" THEN "a" ELSE c
        RECURSIVE Scan(_, _)
        Scan(s, cur) ==
            IF s = <<>> THEN (IF cur = <<>> THEN <<>> ELSE <<cur>>)
            ELSE IF Head(s) \in {"a", "b", "A"} THEN Scan(Tail(s), Append(cur, Lower(Head(s))))
            ELSE (IF cur = <<>> THEN <<>> ELSE <<cur>>) \o Scan(Tail(s), <<>>)
    IN  Scan(chars, <<>>)

\* re.split(r"[.!?]\s+|\n", text), then strip and drop the empty parts.  A part
\* holds no line feed, so the only white space strip finds is the space.
SplitSentences(chars) ==
    LET RECURSIVE SkipSpace(_)
        SkipSpace(s) == IF s # <<>> /\ Head(s) \in {" ", "\n"} THEN SkipSpace(Tail(s)) ELSE s
        RECURSIVE Split(_, _)
        Split(s, cur) ==
            IF s = <<>> THEN <<cur>>
            ELSE IF Head(s) \in {".", "!", "?"} /\ Len(s) >= 2 /\ s[2] \in {" ", "\n"}
                 THEN <<cur>> \o Split(SkipSpace(Tail(s)), <<>>)
            ELSE IF Head(s) = "\n" THEN <<cur>> \o Split(Tail(s), <<>>)
            ELSE Split(Tail(s), Append(cur, Head(s)))
        parts == Split(chars, <<>>)
        kept == SelectSeq(parts, LAMBDA part : Strip(part) # <<>>)
    IN  [k \in 1..Len(kept) |-> Strip(kept[k])]

\* keywords.py; Stopwords holds the stop words that Texts can spell.
ExtractKeywords(chars) ==
    LET tokens == Tokens(chars)
        Stopwords == {<<"a">>}
    IN  {tokens[k] : k \in {j \in 1..Len(tokens) : Len(tokens[j]) > 2 /\ tokens[j] \notin Stopwords}}

\* Variant: the generations without error, with or without text.
Usable_WithoutError(generations) == SelectSeq(generations, GenOk)

\* [gen for gen in generations if gen.text]
Usable(generations) == SelectSeq(generations, LAMBDA gen : Truthy(gen.text))

\* set(sentences), line 38: the iteration order of a set of str follows the
\* hashes of its elements, which differ from one interpreter run to the next;
\* every order of the elements can be the one.
SetOrders(list) ==
    LET RECURSIVE Orders(_)
        Orders(S) ==
            IF S = {} THEN {<<>>}
            ELSE UNION {{<<x>> \o rest : rest \in Orders(S \ {x})} : x \in S}
    IN  Orders({list[k] : k \in 1..Len(list)})

\* The choices of iteration order for the sets of one call of _consensus_overlap.
RECURSIVE IterChoices(_)
IterChoices(generations) ==
    IF generations = <<>> THEN {<<>>}
    ELSE {<<order>> \o rest : order \in SetOrders(SplitSentences(Head(generations).text.chars)),
                              rest \in IterChoices(Tail(generations))}

Rationale(message, model_id) == [message |-> message, model_id |-> model_id]

SynthesisPayload(ok, method, text, rationale) ==
    [ok |-> ok, method |-> method, text |-> text, rationale |-> rationale]

\* Variant: of the longest generations the last one is taken.
LongestNonempty_LastOfLongest(generations, rationale) ==
    LET n == Len(generations)
        at == CHOOSE k \in 1..n :
                  \A j \in 1..n :
                      /\ Len(generations[j].text.chars) <= Len(generations[k].text.chars)
                      /\ j > k => Len(generations[j].text.chars) < Len(generations[k].text.chars)
        target == generations[at]
    IN  SynthesisPayload(TRUE, "longest_nonempty", target.text,
                         IF rationale # None THEN Rationale(rationale, None)
                         ELSE Rationale("Selected longest response from", target.model_id))

\* max(generations, key=len(text)) returns the first of the longest.
LongestNonempty(generations, rationale) ==
    LET n == Len(generations)
        at == CHOOSE k \in 1..n :
                  \A j \in 1..n :
                      /\ Len(generations[j].text.chars) <= Len(generations[k].text.chars)
                      /\ j < k => Len(generations[j].text.chars) < Len(generations[k].text.chars)
        target == generations[at]
    IN  SynthesisPayload(TRUE, "longest_nonempty", target.text,
                         IF rationale # None THEN Rationale(rationale, None)
                         ELSE Rationale("Selected longest response from", target.model_id))

\* iter[k] is the order in which set(sentences) of the k-th generation iterates.
ConsensusOverlap(generations, iter) ==
    LET n == Len(generations)
        RECURSIVE Keys(_, _)
        Keys(seen_so_far, rest) ==
            IF rest = <<>> THEN seen_so_far
            ELSE Keys(IF \E k \in 1..Len(seen_so_far) : seen_so_far[k] = Head(rest)
                      THEN seen_so_far ELSE Append(seen_so_far, Head(rest)),
                      Tail(rest))
        RECURSIVE Concat(_)
        Concat(ss) == IF ss = <<>> THEN <<>> ELSE Head(ss) \o Concat(Tail(ss))
        counter_keys == Keys(<<>>, Concat(iter))
        Count(s) == Cardinality({k \in 1..n : \E j \in 1..Len(iter[k]) : iter[k][j] = s})
        overlapping == SelectSeq(counter_keys, LAMBDA s : Count(s) > 1)
        Before(s, t) == Count(s) > Count(t) \/ (Count(s) = Count(t) /\ Len(s) > Len(t))
        RECURSIVE Ins(_, _)
        Ins(sorted, x) ==
            IF sorted = <<>> THEN <<x>>
            ELSE IF Before(x, Head(sorted)) THEN <<x>> \o sorted
            ELSE <<Head(sorted)>> \o Ins(Tail(sorted), x)
        RECURSIVE StableSort(_, _)
        StableSort(sorted, rest) ==
            IF rest = <<>> THEN sorted ELSE StableSort(Ins(sorted, Head(rest)), Tail(rest))
        overlapping_sorted == StableSort(<<>>, overlapping)
        RECURSIVE JoinLines(_)
        JoinLines(ss) ==
            IF ss = <<>> THEN <<>>
            ELSE IF Len(ss) = 1 THEN Head(ss)
            ELSE Head(ss) \o <<"\n">> \o JoinLines(Tail(ss))
    IN  IF overlapping = <<>>
        THEN LongestNonempty(generations, "No overlapping sentences; fell back to longest.")
        ELSE SynthesisPayload(TRUE, "consensus_overlap", Str(JoinLines(overlapping_sorted)),
                              Rationale("Selected overlapping sentence(s) appearing in multiple outputs.",
                                        None))

\* Variant: best_of_n takes the longest generation.
BestOfN_ByLength(prompt_text, generations) ==
    [LongestNonempty(generations, None) EXCEPT !.method = "best_of_n"]

\* score = keyword_coverage + (1 - redundancy) + conciseness_penalty (lines
\* 60-63) as one fraction.  The loop keeps the first generation of the highest
\* score (`>` at line 64); a generation without a token is skipped.
BestOfN(prompt_text, generations) ==
    LET prompt_keywords == ExtractKeywords(prompt_text)
        Score(tokens) ==
            LET m == Len(tokens)
                token_set == {tokens[k] : k \in 1..m}
                K == IF prompt_keywords = {} THEN 1 ELSE Cardinality(prompt_keywords)
                c == Cardinality(token_set \cap prompt_keywords)
                u == Cardinality(token_set)
            IN  [num |-> c * m * (200 + m) + u * K * (200 + m) + 200 * K * m,
                 den |-> K * m * (200 + m)]
        Greater(x, y) == x.num * y.den > y.num * x.den
        n == Len(generations)
        scored == {k \in 1..n : Tokens(generations[k].text.chars) # <<>>}
        ScoreOf(k) == Score(Tokens(generations[k].text.chars))
        best == CHOOSE k \in scored :
                    \A j \in scored :
                        /\ ~Greater(ScoreOf(j), ScoreOf(k))
                        /\ j < k => Greater(ScoreOf(k), ScoreOf(j))
    IN  IF scored = {}
        THEN LongestNonempty(generations, "Unable to score responses; fell back to longest.")
        ELSE SynthesisPayload(TRUE, "best_of_n", generations[best].text,
                              Rationale("Selected via best_of_n scoring", generations[best].model_id))

\* Variant: nothing is synthesized unless every generation has text.
Synthesize_NeedsAll(prompt_text, generations, method, iter) ==
    IF Len(Usable(generations)) < Len(generations) \/ generations = <<>>
    THEN SynthesisPayload(FALSE, "longest_nonempty", NullText,
                          Rationale("No responses were available to synthesize.", None))
    ELSE LongestNonempty(generations, None)

\* Variant: every request with a usable generation is answered by scoring.
Synthesize_AlwaysScores(prompt_text, generations, method, iter) ==
    IF Usable(generations) = <<>>
    THEN SynthesisPayload(FALSE, "longest_nonempty", NullText,
                          Rationale("No responses were available to synthesize.", None))
    ELSE BestOfN(prompt_text, Usable(generations))

\* MultiStrategySynthesizer.synthesize; iter covers the usable generations.
Synthesize(prompt_text, generations, method, iter) ==
    LET usable == Usable(generations)
    IN  IF usable = <<>>
        THEN SynthesisPayload(FALSE, "longest_nonempty", NullText,
                              Rationale("No responses were available to synthesize.", None))
        ELSE IF method = "consensus_overlap" THEN ConsensusOverlap(usable, iter)
        ELSE IF method = "best_of_n" THEN BestOfN(prompt_text, usable)
        ELSE LongestNonempty(usable, None)

\* Variant: two empty sets are taken as sharing nothing.
Jaccard_EmptyIsZero(A, B) ==
    IF A \cup B = {} THEN [num |-> 0, den |-> 1]
    ELSE [num |-> Cardinality(A \cap B), den |-> Cardinality(A \cup B)]

\* utils/metrics.py, jaccard of two sets of tokens.
Jaccard(A, B) ==
    IF A = {} /\ B = {} THEN [num |-> 1, den |-> 1]
    ELSE [num |-> Cardinality(A \cap B), den |-> Cardinality(A \cup B)]

\* EvaluationEngine._compare.  length_ratio, keyword_coverage, rouge_l and the
\* disagreement summary decide nothing and are left out of the records.
Compare(prompt_text, generations) ==
    LET usable == Usable(generations)
        n == Len(usable)
        TokenSet(gen) == LET tokens == Tokens(gen.text.chars)
                         IN  {tokens[k] : k \in 1..Len(tokens)}
        Pair(i, j) == [a |-> usable[i].model_id, b |-> usable[j].model_id,
                       token_overlap_jaccard |-> Jaccard(TokenSet(usable[i]), TokenSet(usable[j]))]
        RECURSIVE Loop(_, _)
        Loop(i, j) ==
            IF i > n THEN <<>>
            ELSE IF j > n THEN Loop(i + 1, i + 2)
            ELSE <<Pair(i, j)>> \o Loop(i, j + 1)
        pairs == Loop(1, 2)
        RECURSIVE Sum(_)
        Sum(ps) ==
            IF ps = <<>> THEN [num |-> 0, den |-> 1]
            ELSE LET x == Head(ps).token_overlap_jaccard
                     y == Sum(Tail(ps))
                 IN  [num |-> x.num * y.den + y.num * x.den, den |-> x.den * y.den]
    IN  IF n < 2
        THEN [pairs |-> <<>>, summary |-> [avg_similarity |-> [num |-> 1, den |-> 1]]]
        ELSE [pairs |-> pairs,
              summary |-> [avg_similarity |-> [num |-> Sum(pairs).num,
                                               den |-> Sum(pairs).den * Len(pairs)]]]

(***************************************************************************)
(* SpecReduce: the generations evaluate got from _gather are drawn from a  *)
(* bounded set; lines 97-105 annotate, synthesize, compare and map them.   *)
(***************************************************************************)
\* What _gather can hold for the k-th model of a run: the failures, a reply
\* without content, a reply with one of Texts.  A request may name a model again.
ReduceOutcomes(k) ==
    LET model == ListModels[((k - 1) % Len(ListModels)) + 1]
        failed == {UnavailableResult(model), TimeoutResult(model),
                   ProviderErrorResult(model, "bad gateway"),
                   CancelledResult(model.id, "run_timeout"), NullContentReturn(model)}
    IN  {[gen EXCEPT !.text = NullText] : gen \in failed}
            \cup {[ProviderReturn(model, TRUE) EXCEPT !.text = Str(chars)] : chars \in Texts}

RECURSIVE ReduceGenerations(_)
ReduceGenerations(n) ==
    IF n = 0 THEN {<<>>}
    ELSE LET shorter == ReduceGenerations(n - 1)
         IN  shorter \cup {Append(gens, gen) : gens \in {g \in shorter : Len(g) = n - 1},
                                               gen \in ReduceOutcomes(n)}

InitReduce ==
    /\ EngineIdle
    /\ canon = NoCanon
    /\ files = <<>>
    /\ persist = NoPersist
    /\ seen = NoSeen
    /\ redact = NoRedact
    /\ call = NoCall
    /\ reduce \in [pc : {"annotate"}, prompt : {<<"a">>, <<"a", "a", "a">>},
                   method : SynthesisMethods,
                   generations : ReduceGenerations(MaxGenerations),
                   synthesis : {None}, compare : {None}, results : {<<>>}]

\* Variant: every generation is annotated, with or without text.
Annotate_Every(prompt_text, gen) ==
    [gen EXCEPT !.meta = [present |-> TRUE, cancel_reason |-> gen.meta.cancel_reason,
                          format_compliance |-> "1.0", hedge_count |-> "0"]]

\* Lines 98-101, the body of the loop: gen.meta keeps its keys and gets two
\* more.  No prompt of the model asks for bullets, so format_compliance
\* returns 1.0 (metrics.py 77-79), and no text of Texts spells a hedge term, so
\* hedge_count returns 0.
Annotate(prompt_text, gen) ==
    IF Truthy(gen.text)
    THEN [gen EXCEPT !.meta = [present |-> TRUE, cancel_reason |-> gen.meta.cancel_reason,
                               format_compliance |-> "1.0", hedge_count |-> "0"]]
    ELSE gen

\* Lines 97-101.
AnnotateStep ==
    /\ reduce.pc = "annotate"
    /\ reduce' = [reduce EXCEPT
                     !.generations = [k \in 1..Len(reduce.generations) |->
                                         Annotate(reduce.prompt, reduce.generations[k])],
                     !.pc = "synthesize"]
    /\ UNCHANGED <<engineVars, canon, files, persist, seen, redact, call>>

\* Line 103.
SynthesizeStep ==
    /\ reduce.pc = "synthesize"
    /\ \E iter \in IterChoices(Usable(reduce.generations)) :
           reduce' = [reduce EXCEPT
                         !.synthesis = Synthesize(reduce.prompt, reduce.generations,
                                                  reduce.method, iter),
                         !.pc = "compare"]
    /\ UNCHANGED <<engineVars, canon, files, persist, seen, redact, call>>

\* Line 104.
CompareStep ==
    /\ reduce.pc = "compare"
    /\ reduce' = [reduce EXCEPT !.compare = Compare(reduce.prompt, reduce.generations),
                                !.pc = "map"]
    /\ UNCHANGED <<engineVars, canon, files, persist, seen, redact, call>>

\* Line 105: _map_generation of every generation, with the two metrics it
\* reads from gen.meta (lines 287-288).
MapStep ==
    /\ reduce.pc = "map"
    /\ LET Metric(gen, key) ==
               IF gen.meta.present /\ key \in DOMAIN gen.meta THEN gen.meta[key] ELSE None
           Mapped(gen) ==
               MapGeneration(gen) @@ [format_compliance |-> Metric(gen, "format_compliance"),
                                      hedge_count |-> Metric(gen, "hedge_count")]
       IN  reduce' = [reduce EXCEPT
                         !.results = [k \in 1..Len(reduce.generations) |->
                                         Mapped(reduce.generations[k])],
                         !.pc = "reduced"]
    /\ UNCHANGED <<engineVars, canon, files, persist, seen, redact, call>>

NextReduce == AnnotateStep \/ SynthesizeStep \/ CompareStep \/ MapStep

SpecReduce == InitReduce /\ [][NextReduce]_vars

(***************************************************************************)
(* Helpers of the properties.                                              *)
(***************************************************************************)
Returned == phase = "returned"

\* Position of unit i in the dict `tasks` (0 if the dict does not hold it).
SlotOf(i) ==
    IF i \in TaskUnits(tasks) THEN CHOOSE k \in 1..Len(tasks) : tasks[k].unit = i ELSE 0

\* Entries of the response that carry model id `id`.
EntriesOf(id) == {k \in 1..Len(response.results) : response.results[k].model = id}

(***************************************************************************)
(* C1: a returned run holds exactly one outcome per resolved model         *)
(* (len(results) = len(selected_models)), also when a model id is          *)
(* requested more than once.                                               *)
(***************************************************************************)
C1_OneOutcomePerResolvedModel ==
    Returned => Len(response.results) = Len(selected)

(***************************************************************************)
(* C2: in a returned run the i-th entry of the results is the outcome of   *)
(* the i-th resolved model's unit, whatever the order of completion.       *)
(***************************************************************************)
C2_ResultOrderIsRequestOrder ==
    Returned =>
        \A i \in 1..Len(selected) :
            /\ i <= Len(response.results)
            /\ response.results[i].model = selected[i].id
            /\ TaskDone(units[i])
            /\ response.results[i] =
                   MapGeneration(Collected(units[i], selected[i].id, cancel_reason))

(***************************************************************************)
(* C3: in a returned run status is success iff every outcome has no        *)
(* error, partial iff some outcome succeeded and some failed, failed iff   *)
(* none succeeded; the list is non-empty, the status is one of the three,  *)
(* and partial_success is true exactly when the status is partial.         *)
(***************************************************************************)
C3_NoError(r) == r.error_code = None /\ r.error_message = None

C3_StatusClassification ==
    Returned =>
        LET rs == response.results
            good == {k \in 1..Len(rs) : C3_NoError(rs[k])}
            bad == (1..Len(rs)) \ good
        IN  /\ rs # <<>>
            /\ response.status \in {"success", "partial", "failed"}
            /\ (response.status = "success") <=> (bad = {})
            /\ (response.status = "partial") <=> (good # {} /\ bad # {})
            /\ (response.status = "failed") <=> (good = {})
            /\ response.partial_success <=> (response.status = "partial")

C3_PartialRun ==
    /\ Returned
    /\ response.status = "partial"
    /\ response.partial_success
    /\ \E k \in 1..Len(response.results) : response.results[k].error_code = None
    /\ \E k \in 1..Len(response.results) : response.results[k].error_code = "provider_error"

(***************************************************************************)
(* C4: a request that is rejected (prompt empty after trimming, prompt     *)
(* over the character bound, an unknown model id, zero resolved models,    *)
(* more resolved models than the maximum) launches nothing: no unit, no    *)
(* generate call, no monitor, no run file.                                 *)
(***************************************************************************)
C4_ResolvedCount ==
    IF requested.given THEN Len(requested.ids)
    ELSE Cardinality({k \in 1..Len(ListModels) : ListModels[k].available})

C4_MustReject ==
    \/ Strip(prompt) = <<>>
    \/ Len(Strip(prompt)) > MaxPromptChars
    \/ requested.given /\ \E k \in 1..Len(requested.ids) : requested.ids[k] \notin KnownIds
    \/ C4_ResolvedCount = 0
    \/ C4_ResolvedCount > MaxModelsPerRequest

C4_NothingLaunched ==
    /\ units = <<>>
    /\ tasks = <<>>
    /\ monitor = "none"
    /\ runs = {}
    /\ response = NoResponse

C4_RejectedBeforeDispatch ==
    /\ (phase = "rejected" \/ C4_MustReject) => (phase \in {"start", "rejected"} /\ C4_NothingLaunched)
    /\ phase = "rejected" => (C4_MustReject /\ error.message # None)

C4_RejectedTooMany ==
    /\ phase = "rejected"
    /\ error.message = "Too many models requested"
    /\ Len(requested.ids) > MaxModelsPerRequest
    /\ C4_NothingLaunched

C8_AbortCancelsRunningUnits ==
    wait.running_at_abort # {} =>
        /\ wait.cause # "timeout"
        /\ \A i \in wait.running_at_abort :
              /\ units[i].event \in {None, "cancelled"}
              /\ Returned => units[i].state = "cancelled"

(***************************************************************************)
(* C9: when every unit is finished before the run deadline and no          *)
(* disconnect was reported, asyncio.wait is over with the last unit, with  *)
(* or without a monitor: it never lasts until the deadline.                *)
(***************************************************************************)
C9_AllFinishedEndsTheRace ==
    wait.cause = "timeout" =>
        (wait.running_at_end # {} \/ wait.abort_reported)

(***************************************************************************)
(* C10: a unit still running when the run deadline ends asyncio.wait, the  *)
(* monitor not having reported a disconnect, gives its model a cancelled   *)
(* outcome tagged run_timeout; after a reported disconnect the tag is      *)
(* client_disconnected; every cancelled outcome carries one of the two.    *)
(***************************************************************************)
C10_CancelledTag(r, tag) ==
    /\ r.error_code = "cancelled"
    /\ r.meta.cancel_reason = tag
    /\ r.error_message = tag

C10_DeadlineCancelsWithTag ==
    /\ \A i \in wait.running_at_end :
          wait.cause = "timeout" =>
              /\ units[i].state \in {"cancelling", "cancelled"}
              /\ Returned =>
                    /\ SlotOf(i) # 0
                    /\ C10_CancelledTag(response.results[SlotOf(i)],
                           IF wait.abort_reported THEN "client_disconnected"
                           ELSE "run_timeout")
    /\ \A k \in 1..Len(response.results) :
          response.results[k].error_code = "cancelled" =>
              response.results[k].meta.cancel_reason \in {"run_timeout", "client_disconnected"}

(***************************************************************************)
(* C11: when evaluate returns, every per-model unit that was launched and  *)
(* the abort poller, if one was started, has terminated: nothing is left   *)
(* pending or running.                                                     *)
(***************************************************************************)
C11_AllTerminatedAtReturn ==
    Returned =>
        /\ \A i \in UnitIds : TaskDone(units[i])
        /\ monitor # "pending"

(***************************************************************************)
(* C12: every outcome of a returned run carries a latency (latency_ms is   *)
(* not None), whatever its kind.                                           *)
(***************************************************************************)
C12_EveryOutcomeHasLatency ==
    Returned =>
        \A k \in 1..Len(response.results) : response.results[k].latency_ms # None
(***************************************************************************)
(* C13: in a returned run every outcome that counts as a success (no error *)
(* code, ok, status "success") has a text that is not None.                *)
(***************************************************************************)
C13_SuccessHasText ==
    Returned =>
        \A k \in 1..Len(response.results) :
            LET r == response.results[k]
            IN  (r.error_code = None /\ r.ok /\ r.status = "success") => r.text # None

(***************************************************************************)
(* C15: the run hash exists before any unit has taken a step, and the hash *)
(* of the returned response is the hash of the request alone, whatever the *)
(* units did.                                                              *)
(***************************************************************************)
C15_HashOfRequest == RunHash(Request(prompt, requested, DefaultParams))

C15_RunHashIsOfTheRequestAlone ==
    /\ units # <<>> => run_hash = C15_HashOfRequest
    /\ Returned => response.run_hash = C15_HashOfRequest

\* A returned run in which a unit failed and another was cancelled.
C15_HashOfFailedRun ==
    /\ Returned
    /\ response.status = "failed"
    /\ \E k \in 1..Len(response.results) : response.results[k].error_code = "cancelled"
    /\ \E k \in 1..Len(response.results) : response.results[k].error_code = "timeout"
    /\ response.run_hash = C15_HashOfRequest
(***************************************************************************)
(* C14: two requests that differ only in the order of the model id list    *)
(* or in leading/trailing whitespace of the prompt have the same canonical *)
(* hash; two requests that differ in the trimmed prompt, in temperature,   *)
(* max tokens, per-model timeout or synthesis strategy, or in the set of   *)
(* model ids, have different hashes.                                       *)
(***************************************************************************)
C14_Count(ids, x) == Cardinality({k \in 1..Len(ids) : ids[k] = x})

C14_IdSet(r) == {r.models.ids[k] : k \in 1..Len(r.models.ids)}

C14_SameParams(r1, r2) ==
    /\ r1.temperature = r2.temperature
    /\ r1.max_tokens = r2.max_tokens
    /\ r1.timeout_s = r2.timeout_s
    /\ r1.synthesis_method = r2.synthesis_method

C14_OnlyOrderOrPadding(r1, r2) ==
    /\ C14_SameParams(r1, r2)
    /\ Strip(r1.prompt) = Strip(r2.prompt)
    /\ r1.models.given = r2.models.given
    /\ Len(r1.models.ids) = Len(r2.models.ids)
    /\ \A x \in CanonIds : C14_Count(r1.models.ids, x) = C14_Count(r2.models.ids, x)

C14_Differ(r1, r2) ==
    \/ ~C14_SameParams(r1, r2)
    \/ Strip(r1.prompt) # Strip(r2.prompt)
    \/ C14_IdSet(r1) # C14_IdSet(r2)

C14_HashIsCanonical ==
    canon.run_hash # None =>
        \A r2 \in CanonRequests :
            /\ C14_OnlyOrderOrPadding(canon.request, r2) => RunHash(r2) = canon.run_hash
            /\ C14_Differ(canon.request, r2) => RunHash(r2) # canon.run_hash

\* A hashed request with a padded prompt and two ids, equal in hash to the
\* request with the trimmed prompt and the ids the other way round.
C14_ReorderedAndPadded ==
    /\ canon.run_hash # None
    /\ canon.request.prompt = <<" ", "x">>
    /\ canon.request.models.ids = <<"mock:echo", "gemini:disabled">>
    /\ canon.run_hash =
           RunHash([canon.request EXCEPT !.prompt = <<"x">>,
                       !.models.ids = <<"gemini:disabled", "mock:echo">>])
    /\ canon.run_hash # RunHash([canon.request EXCEPT !.models.ids = <<"mock:echo">>])
(***************************************************************************)
(* C16: a reader that runs between any two steps of the write, on any of   *)
(* the three write paths, finds under the final name of the run either no  *)
(* file or the complete document, never a part of it.                      *)
(***************************************************************************)
C16_ReaderSeesNothingOrAll ==
    (seen.op = "get_run" /\ seen.arg.run_id = NewRunId) =>
        /\ ~seen.raised
        /\ seen.result.found => seen.result.data = Payload(NewRunId, persist.response)

(***************************************************************************)
(* C17: no failure of a persistence step (making the directory, writing    *)
(* the temporary file, the rename, remove-then-rename, the copy) reaches   *)
(* the caller of evaluate: evaluate returns its response.                  *)
(***************************************************************************)
C17_PersistFailureStaysInside == persist.pc # "raised"

(***************************************************************************)
(* C18: the final path is written by the atomic rename, then by            *)
(* remove-then-rename only if the rename failed, then by the copy only if  *)
(* that failed too; once _persist_run is over, normally or with an error,  *)
(* the temporary file does not exist and every degradation from the atomic *)
(* rename has been logged.                                                 *)
(***************************************************************************)
C18_Ladder == <<"rename", "remove_rename", "copy">>

C18_Over == persist.pc \in {"returned", "raised"}

C18_TempGoneAndDegradationLogged ==
    /\ Len(persist.attempts) <= Len(C18_Ladder)
    /\ persist.attempts = SubSeq(C18_Ladder, 1, Len(persist.attempts))
    /\ C18_Over =>
        /\ ~files[Tmp].exists
        /\ Len(persist.attempts) > 1 => persist.logged

(***************************************************************************)
(* C19: list_runs never raises because of an unreadable or corrupt run     *)
(* file: whatever mix of valid and corrupt files the directory holds, it   *)
(* returns the summaries of the valid files that pass the status filter,   *)
(* newest name first, cut by the limit.                                    *)
(***************************************************************************)
C19_Valid(fs, n, status) ==
    /\ n.ext = ".json"
    /\ fs[n].exists
    /\ fs[n].readable
    /\ \E d \in Documents :
          /\ fs[n].content = JsonDumpDocument(d)
          /\ status = None \/ d.response.status = status

C19_Expected(fs, status) ==
    LET names == SortedNamesDesc({n \in FileNames : C19_Valid(fs, n, status)})
    IN  [k \in 1..Len(names) |-> Summary(JsonLoad(fs[names[k]].content).data)]

C19_Good(fs, obs) ==
    LET all == C19_Expected(fs, obs.arg.status)
        got == obs.result.entries
    IN  /\ ~obs.raised
        /\ Len(got) <= Len(all)
        /\ got = SubSeq(all, 1, Len(got))
        /\ Len(got) = Len(all) \/ Len(got) >= obs.arg.limit

C19_ListRunsSkipsCorruptFiles ==
    [][(\E limit \in 0..MaxLimit, status \in {None, "success"} : ReadListRuns(limit, status))
          => C19_Good(files', seen')]_vars

\* A listing of a directory that holds a truncated file and an unreadable or
\* valid one: the valid run is summarised.
C19_ListedBesideCorrupt ==
    /\ seen.op = "list_runs"
    /\ ~seen.raised
    /\ files[FinalPath("r3")].content \notin DOMAIN DocumentOfText
    /\ files[FinalPath("r1")].exists
    /\ files[Final].exists
    /\ \E k \in 1..Len(seen.result.entries) : seen.result.entries[k].run_id = "r1"

(***************************************************************************)
(* C20: once evaluate has returned the response R, get_run(R.request_id)   *)
(* returns a document whose request id, run hash and response are those of *)
(* R, list_runs without filter and with a sufficient limit holds a summary *)
(* of the run, and every later read returns the same document.             *)
(***************************************************************************)
C20_RoundTrip ==
    persist.pc = "returned" =>
        LET R == persist.response
            got == GetRun(files, R.request_id)
            listed == ListRuns(files, Cardinality(RunIds), None).entries
        IN  /\ ~got.raised /\ got.found
            /\ got.data.request_id = R.request_id
            /\ got.data.run_hash = R.run_hash
            /\ got.data.response = R
            /\ \E k \in 1..Len(listed) :
                  listed[k] = [run_id |-> R.request_id, status |-> R.status,
                               run_hash |-> R.run_hash]
            /\ (seen.returned /\ seen.op = "get_run" /\ seen.arg.run_id = R.request_id)
                  => ~seen.raised /\ seen.result.found /\ seen.result.data = got.data

\* A read made after evaluate returned from the copy fallback.
C20_ReadAfterFallback ==
    /\ persist.pc = "returned"
    /\ persist.attempts = <<"rename", "remove_rename", "copy">>
    /\ seen.returned
    /\ seen.op = "get_run"
    /\ seen.arg.run_id = NewRunId
    /\ seen.result.found
(***************************************************************************)
(* C21: an error raised by the synthesis step or by the comparison step    *)
(* after the generations were collected does not abort evaluate: the run   *)
(* is still returned with every collected outcome.                         *)
(***************************************************************************)
C21_ReducerErrorIsContained == phase # "reducer_raised"

(***************************************************************************)
(* C28: resolution without requested ids gives exactly the descriptors     *)
(* whose available flag is true; with requested ids it gives one           *)
(* descriptor per requested id, in the requested order, the unavailable    *)
(* ones included.                                                          *)
(***************************************************************************)
C28_Resolved == ResolveModels(requested)

C28_ResolutionKeepsRequest ==
    /\ ~requested.given =>
          /\ {C28_Resolved[k] : k \in 1..Len(C28_Resolved)}
                = {ListModels[k] : k \in {j \in 1..Len(ListModels) : ListModels[j].available}}
          /\ \A j, k \in 1..Len(C28_Resolved) : C28_Resolved[j] = C28_Resolved[k] => j = k
    /\ (requested.given /\ \A k \in 1..Len(requested.ids) : requested.ids[k] \in KnownIds) =>
          /\ Len(C28_Resolved) = Len(requested.ids)
          /\ \A k \in 1..Len(requested.ids) :
                /\ C28_Resolved[k].id = requested.ids[k]
                /\ \E j \in 1..Len(ListModels) : ListModels[j] = C28_Resolved[k]
    /\ phase \in {"waiting", "collecting", "returned"} => selected = C28_Resolved

\* A dispatched request that names the unavailable model first.
C28_UnavailableKeptInOrder ==
    /\ phase = "waiting"
    /\ requested.ids = <<"gemini:disabled", "mock:echo">>
    /\ Len(selected) = 2
    /\ selected[1].id = "gemini:disabled" /\ ~selected[1].available
    /\ selected[2].id = "mock:echo"

(***************************************************************************)
(* C29: resolution fails with the unknown-model error exactly when some    *)
(* requested id matches no descriptor; the error names every offending id, *)
(* only those, and the currently available ids; nothing is resolved.       *)
(***************************************************************************)
C29_Offending ==
    IF requested.given THEN SelectSeq(requested.ids, LAMBDA mid : mid \notin KnownIds)
    ELSE <<>>

C29_PromptPasses == Strip(prompt) # <<>> /\ Len(Strip(prompt)) <= MaxPromptChars

C29_FailsExactlyOnUnknownIds ==
    phase # "start" =>
        ((phase = "rejected" /\ error.message = "Unknown model(s)")
            <=> (C29_PromptPasses /\ C29_Offending # <<>>))

C29_ErrorNamesOffendingIds ==
    (phase = "rejected" /\ error.message = "Unknown model(s)") =>
        /\ error.ids = C29_Offending
        /\ selected = <<>>

C29_UnknownModelError ==
    /\ C29_FailsExactlyOnUnknownIds
    /\ C29_ErrorNamesOffendingIds
    /\ (phase = "rejected" /\ error.message = "Unknown model(s)") =>
          error.available = <<"mock:echo", "openai:gpt-4o-mini">>
(***************************************************************************)
(* C22: a run document, once written, is never modified: every step of     *)
(* _persist_run, get_run and list_runs leaves every run file that exists   *)
(* unchanged (the file of the new run while copyfile is filling it         *)
(* excepted), and a persist that returns has created exactly the file      *)
(* named by its run id, holding the document of the run.                   *)
(***************************************************************************)
C22_RunFilesAreWrittenOnce ==
    [][/\ \A id \in RunIds :
             LET n == FinalPath(id)
             IN  (files[n].exists /\ ~(n = Final /\ persist.pc = "copy_write"))
                    => files'[n] = files[n]
       /\ \A id \in RunIds \ {NewRunId} : files'[FinalPath(id)] = files[FinalPath(id)]
       /\ seen' # seen => files' = files
       /\ (persist.pc # "returned" /\ persist'.pc = "returned")
             => files'[Final] = File(PayloadText)]_vars

\* A reader has run after the new run was persisted beside an older run file.
C22_ReadBesideOlderRun ==
    /\ persist.pc = "returned"
    /\ seen.returned
    /\ seen.op = "list_runs"
    /\ files[Final] = File(PayloadText)
    /\ files[FinalPath("r1")].exists
    /\ files[FinalPath("r1")].content \in DOMAIN DocumentOfText
(***************************************************************************)
(* Helpers of the claims on the reducers.                                  *)
(***************************************************************************)
Synthesized == reduce.pc \in {"compare", "map", "reduced"}

\* The generations with text, by the fields of the record.
WithText ==
    SelectSeq(reduce.generations, LAMBDA gen : ~gen.text.null /\ Len(gen.text.chars) > 0)

SentenceSet(chars) == {SplitSentences(chars)[k] : k \in 1..Len(SplitSentences(chars))}

(***************************************************************************)
(* C23: for every requested strategy, when no outcome has text the         *)
(* synthesis result is ok=false with strategy 'none' and null text.        *)
(***************************************************************************)
C23_NoTextIsNotOk ==
    (Synthesized /\ WithText = <<>>) => (~reduce.synthesis.ok /\ reduce.synthesis.text.null)

C23_NoTextGivesNone ==
    (Synthesized /\ WithText = <<>>) =>
        /\ ~reduce.synthesis.ok
        /\ reduce.synthesis.method = "none"
        /\ reduce.synthesis.text.null

C26_TwoGenerations ==
    Synthesized /\ reduce.method = "consensus_overlap" /\ Len(WithText) = 2

C26_ReturnsEverySentence ==
    /\ reduce.synthesis.ok
    /\ reduce.synthesis.method = "consensus_overlap"
    /\ SentenceSet(reduce.synthesis.text.chars) = SentenceSet(WithText[1].text.chars)
    /\ Len(SplitSentences(reduce.synthesis.text.chars))
          = Cardinality(SentenceSet(WithText[1].text.chars))

C26_FallsBackWhenNothingShared ==
    (C26_TwoGenerations
        /\ SentenceSet(WithText[1].text.chars) \cap SentenceSet(WithText[2].text.chars) = {}) =>
        /\ reduce.synthesis.ok
        /\ reduce.synthesis.method = "longest_nonempty"
        /\ reduce.synthesis.text =
              IF Len(WithText[2].text.chars) > Len(WithText[1].text.chars)
              THEN WithText[2].text ELSE WithText[1].text
        /\ reduce.synthesis.rationale.message = "No overlapping sentences; fell back to longest."

C27_ConsensusIsDeterministic ==
    (Synthesized /\ reduce.method = "consensus_overlap") =>
        \A iter \in IterChoices(Usable(reduce.generations)) :
            Synthesize(reduce.prompt, reduce.generations, reduce.method, iter) = reduce.synthesis

\* Whatever the execution, the same sentences are returned.
C27_SameSentencesInEveryExecution ==
    (Synthesized /\ reduce.method = "consensus_overlap") =>
        \A iter \in IterChoices(Usable(reduce.generations)) :
            LET other == Synthesize(reduce.prompt, reduce.generations, reduce.method, iter)
            IN  /\ other.method = reduce.synthesis.method
                /\ SentenceSet(other.text.chars) = SentenceSet(reduce.synthesis.text.chars)

(***************************************************************************)
(* C30: the comparator returns no pair and avg_similarity 1.0 when fewer   *)
(* than two outcomes have text; otherwise one pair for every unordered     *)
(* pair of outcomes with text, n*(n-1)/2 of them, none with an outcome     *)
(* without text, in the order of the outcome list.                         *)
(***************************************************************************)
C30_PairsOfOutcomesWithText ==
    reduce.pc = "reduced" =>
        LET n == Len(WithText)
            pairs == reduce.compare.pairs
            avg == reduce.compare.summary.avg_similarity
            \* place of the pair (i, j), i < j, in the order of the two loops
            Place(i, j) == (i - 1) * n - ((i * (i - 1)) \div 2) + (j - i)
        IN  /\ n < 2 => (pairs = <<>> /\ avg.num = avg.den)
            /\ n >= 2 =>
                  /\ Len(pairs) * 2 = n * (n - 1)
                  /\ \A i \in 1..n : \A j \in (i + 1)..n :
                        /\ pairs[Place(i, j)].a = WithText[i].model_id
                        /\ pairs[Place(i, j)].b = WithText[j].model_id

\* Three outcomes with text give three pairs, the first with the third second.
C30_ThreePairs ==
    /\ reduce.pc = "reduced"
    /\ Len(WithText) = 3
    /\ Len(reduce.compare.pairs) = 3
    /\ reduce.compare.pairs[2].a = reduce.generations[1].model_id
    /\ reduce.compare.pairs[2].b = reduce.generations[3].model_id
(***************************************************************************)
(* C31: jaccard is 1.0 for identical non-empty token sets, 0.0 for         *)
(* disjoint non-empty sets, 1.0 for two empty sets, |A n B| / |A u B|      *)
(* otherwise, symmetric in its arguments, and lies in [0, 1].              *)
(***************************************************************************)
C31_TokenSet(gen) == {Tokens(gen.text.chars)[k] : k \in 1..Len(Tokens(gen.text.chars))}

C31_JaccardOfTokenSets ==
    reduce.pc = "reduced" =>
        LET n == Len(WithText)
            Place(i, j) == (i - 1) * n - ((i * (i - 1)) \div 2) + (j - i)
        IN  \A i \in 1..n : \A j \in (i + 1)..n :
                LET A == C31_TokenSet(WithText[i])
                    B == C31_TokenSet(WithText[j])
                    v == reduce.compare.pairs[Place(i, j)].token_overlap_jaccard
                IN  /\ v.den > 0 /\ 0 <= v.num /\ v.num <= v.den
                    /\ (A = B /\ A # {}) => v.num = v.den
                    /\ (A # {} /\ B # {} /\ A \cap B = {}) => v.num = 0
                    /\ (A = {} /\ B = {}) => v.num = v.den
                    /\ (A # {} \/ B # {}) =>
                          v.num * Cardinality(A \cup B) = Cardinality(A \cap B) * v.den
                    /\ Jaccard(B, A) = v

\* Three texts that overlap in part, in part, and not at all.
C31_PartialAndDisjoint ==
    /\ reduce.pc = "reduced"
    /\ Len(reduce.compare.pairs) = 3
    /\ reduce.compare.pairs[1].token_overlap_jaccard = [num |-> 1, den |-> 2]
    /\ reduce.compare.pairs[3].token_overlap_jaccard = [num |-> 0, den |-> 2]
    /\ C31_TokenSet(WithText[1]) # C31_TokenSet(WithText[2])
C33_AnnotatedOnceBeforeReducers ==
    [][LET n == Len(reduce.generations)
           HasMetrics(gen) == gen.meta.present /\ "format_compliance" \in DOMAIN gen.meta
                                 /\ "hedge_count" \in DOMAIN gen.meta
           HasText(gen) == ~gen.text.null /\ Len(gen.text.chars) > 0
       IN  /\ reduce.pc = "annotate" =>
                 /\ reduce.synthesis = None /\ reduce.compare = None
                 /\ \A k \in 1..n : ~HasMetrics(reduce.generations[k])
           /\ (reduce.pc = "annotate" /\ reduce' # reduce) =>
                 /\ reduce'.synthesis = None /\ reduce'.compare = None
                 /\ \A k \in 1..n : HasMetrics(reduce'.generations[k])
                                       <=> HasText(reduce.generations[k])
           /\ reduce.pc # "annotate" => reduce'.generations = reduce.generations
           /\ (reduce.pc = "map" /\ reduce'.pc = "reduced") =>
                 \A k \in 1..n :
                     LET gen == reduce.generations[k]
                         result == reduce'.results[k]
                     IN  /\ HasText(gen) => (result.format_compliance # None
                                                /\ result.hedge_count # None)
                         /\ ~HasText(gen) => (result.format_compliance = None
                                                /\ result.hedge_count = None)
                         /\ gen.error_code # None => (result.format_compliance = None
                                                        /\ result.hedge_count = None)]_vars

\* The response of a run with a cancelled outcome beside an annotated one.
C33_CancelledBesideAnnotated ==
    /\ reduce.pc = "reduced"
    /\ Len(reduce.results) = 2
    /\ reduce.results[1].error_code = "cancelled"
    /\ reduce.results[1].format_compliance = None
    /\ reduce.results[1].meta.present
    /\ reduce.results[2].format_compliance = "1.0"
    /\ reduce.results[2].hedge_count = "0"
(***************************************************************************)
(* C35: all cancelled outcomes of a run carry the same non-null cancel     *)
(* reason, chosen once after the race: 'client_disconnected' if the        *)
(* monitor finished reporting a disconnect, otherwise 'run_timeout' if     *)
(* some unit had not finished when the wait ended; a cancelled outcome     *)
(* exists only if a reason was chosen.                                     *)
(***************************************************************************)
C35_RaceOver == phase \notin {"start", "rejected", "waiting"}

C35_CancelledCarryTheReason ==
    \A k \in 1..Len(results) :
        results[k].error_code = "cancelled" =>
            /\ cancel_reason \in {"client_disconnected", "run_timeout"}
            /\ results[k].meta.present
            /\ results[k].meta.cancel_reason = cancel_reason
            /\ results[k].error_message = cancel_reason

\* The reason, by the tasks the wait was given.
C35_ReasonByAwaitedUnits ==
    /\ ~C35_RaceOver => cancel_reason = None
    /\ C35_RaceOver =>
          cancel_reason = IF wait.abort_reported THEN "client_disconnected"
                          ELSE IF wait.running_at_end \cap TaskUnits(tasks) # {} THEN "run_timeout"
                          ELSE None

C35_OneReasonPerRun ==
    /\ C35_CancelledCarryTheReason
    /\ ~C35_RaceOver => cancel_reason = None
    /\ C35_RaceOver =>
          cancel_reason = IF wait.abort_reported THEN "client_disconnected"
                          ELSE IF wait.running_at_end # {} THEN "run_timeout"
                          ELSE None
(***************************************************************************)
(* C36: without a client request, when every unit has ended before the run *)
(* deadline, no unit is cancelled and no outcome has error kind            *)
(* 'cancelled'.                                                            *)
(***************************************************************************)
C36_NoCancelWithoutAbortOrDeadline ==
    (~client /\ wait.cause = "all_done" /\ wait.running_at_end = {}) =>
        /\ cancel_reason = None
        /\ \A i \in UnitIds : units[i].state \notin {"cancelling", "cancelled"}
        /\ \A k \in 1..Len(results) : results[k].error_code # "cancelled"
        /\ \A k \in 1..Len(response.results) : response.results[k].error_code # "cancelled"

\* A run whose units ended by their own timeout and by a provider error.
C36_TimeoutAndErrorNoCancel ==
    /\ Returned
    /\ ~client
    /\ wait.cause = "all_done"
    /\ Len(response.results) = 2
    /\ response.results[1].error_code = "timeout"
    /\ response.results[2].error_code = "provider_error"

(***************************************************************************)
(* C37: the monitor reports a disconnect only if a poll answered true; if  *)
(* a poll raises, the monitor ends reporting 'not disconnected', polls no  *)
(* more, and the run is never cancelled with reason 'client_disconnected'. *)
(***************************************************************************)
C37_PollErrorIsNoDisconnect ==
    [][/\ (monitor # "done_true" /\ monitor' = "done_true") =>
             (monitor = "pending" /\ client /\ disconnected)
       /\ monitor = "done_false" =>
             /\ monitor' = "done_false"
             /\ cancel_reason # "client_disconnected"
             /\ cancel_reason' # "client_disconnected"
             /\ \A k \in 1..Len(results') :
                    results'[k].error_code = "cancelled" =>
                        results'[k].meta.cancel_reason # "client_disconnected"
       /\ cancel_reason' = "client_disconnected" => monitor' \in {"done_true"}]_vars

\* The client went away after a poll had raised: the run ended by its deadline.
C37_DisconnectUnseenAfterPollError ==
    /\ Returned
    /\ monitor = "done_false"
    /\ disconnected
    /\ cancel_reason = "run_timeout"
    /\ \E k \in 1..Len(response.results) : response.results[k].error_code = "cancelled"
(***************************************************************************)
(* C38: list_runs(limit, status) returns at most limit summaries for every *)
(* integer limit, 0 included; every summary has the status of the filter   *)
(* when one is given; the summaries come in descending file-name order.    *)
(***************************************************************************)
C38_FilteredAndDescending ==
    (seen.op = "list_runs" /\ ~seen.raised) =>
        LET got == seen.result.entries
        IN  /\ seen.arg.status # None =>
                  \A k \in 1..Len(got) : got[k].status = seen.arg.status
            /\ \A j, k \in 1..Len(got) :
                  j < k => NameRank(FinalPath(got[j].run_id)) > NameRank(FinalPath(got[k].run_id))

C38_AtMostPositiveLimit ==
    (seen.op = "list_runs" /\ ~seen.raised /\ seen.arg.limit >= 1) =>
        Len(seen.result.entries) <= seen.arg.limit

C38_AtMostLimit ==
    /\ C38_FilteredAndDescending
    /\ (seen.op = "list_runs" /\ ~seen.raised) => Len(seen.result.entries) <= seen.arg.limit

(***************************************************************************)
(* utils/redact.py.  A str is the sequence of its characters.  A JSON      *)
(* value is [kind |-> "str", chars], [kind |-> "int", value],              *)
(* [kind |-> "null"], [kind |-> "list", items] or [kind |-> "dict", items] *)
(* with items the sequence of [key, value] in insertion order.  A dict of  *)
(* headers is the sequence of [key, value], both str.                      *)
(***************************************************************************)
\* Lines 4-11 and 17-18: key.lower(), then `p in key_lower` for some pattern.
IsSecretHeader(key) ==
    LET SECRET_HEADER_PATTERNS ==
            <<
              <<"a", "u", "t", "h", "o", "r", "i", "z", "a", "t", "i", "o", "n">>,
              <<"a", "p", "i", "-", "k", "e", "y">>,
              <<"a", "p", "i", "k", "e", "y">>,
              <<"x", "-", "a", "p", "i", "-", "k", "e", "y">>,
              <<"x", "-", "a", "p", "i", "-", "k", "e", "y">>,
              <<"t", "o", "k", "e", "n">>
            >>
        Upper == <<"A", "B", "C", "D", "E", "F", "G", "H", "I", "J", "K", "L", "M", "N", "O", "P", "Q", "R", "S", "T", "U", "V", "W", "X", "Y", "Z">>
        Lowered == <<"a", "b", "c", "d", "e", "f", "g", "h", "i", "j", "k", "l", "m", "n", "o", "p", "q", "r", "s", "t", "u", "v", "w", "x", "y", "z">>
        key_lower == [k \in DOMAIN key |->
                         IF \E i \in DOMAIN Upper : Upper[i] = key[k]
                         THEN Lowered[CHOOSE i \in DOMAIN Upper : Upper[i] = key[k]]
                         ELSE key[k]]
        In(p, s) == \E i \in 0..(Len(s) - Len(p)) : SubSeq(s, i + 1, i + Len(p)) = p
    IN  \E j \in DOMAIN SECRET_HEADER_PATTERNS : In(SECRET_HEADER_PATTERNS[j], key_lower)

\* Lines 19 and 33: the text "***REDACTED***".
REDACTED == <<"*", "*", "*", "R", "E", "D", "A", "C", "T", "E", "D", "*", "*", "*">>

\* Lines 14-22.
RedactHeaders(headers) ==
    [k \in DOMAIN headers |->
        IF IsSecretHeader(headers[k].key)
        THEN [headers[k] EXCEPT !.value = REDACTED]
        ELSE headers[k]]

\* Line 32: len(payload) > 24 and re.search(r"[A-Za-z0-9]{20,}", payload).
IsTokenLike(chars) ==
    LET Alnum ==
            {
             "a", "b", "c", "d", "e", "f", "g", "h", "i", "j", "k", "l", "m", "n",
             "o", "p", "q", "r", "s", "t", "u", "v", "w", "x", "y", "z", "A", "B",
             "C", "D", "E", "F", "G", "H", "I", "J", "K", "L", "M", "N", "O", "P",
             "Q", "R", "S", "T", "U", "V", "W", "X", "Y", "Z", "0", "1", "2", "3",
             "4", "5", "6", "7", "8", "9"
            }
    IN
    /\ Len(chars) > 24
    /\ \E i \in 0..(Len(chars) - 20) : \A k \in (i + 1)..(i + 20) : chars[k] \in Alnum

Mask_KeepsTheTail(chars) ==
    SubSeq(chars, 1, 4) \o REDACTED \o SubSeq(chars, 5, Len(chars))

\* Line 33: payload[:4] + "***REDACTED***" + payload[-4:], on a str longer than 24.
Mask(chars) ==
    SubSeq(chars, 1, 4) \o REDACTED \o SubSeq(chars, Len(chars) - 3, Len(chars))

\* Lines 25-35.
RECURSIVE RedactPayload(_)
RedactPayload(payload) ==
    CASE payload.kind = "dict" ->
             [payload EXCEPT !.items =
                 [k \in DOMAIN payload.items |->
                     [key |-> payload.items[k].key,
                      value |-> RedactPayload(payload.items[k].value)]]]
      [] payload.kind = "list" ->
             [payload EXCEPT !.items =
                 [k \in DOMAIN payload.items |-> RedactPayload(payload.items[k])]]
      [] payload.kind = "str" ->
             IF IsTokenLike(payload.chars)
             THEN [payload EXCEPT !.chars = Mask(payload.chars)]
             ELSE payload
      [] OTHER -> payload

\* Lines 38-43; a body of None is the JSON null.
SanitizeRawIo(url, headers, body) ==
    [url |-> url,
     headers |-> RedactHeaders(headers),
     body |-> IF body.kind # "null" THEN RedactPayload(body) ELSE body]

(***************************************************************************)
(* SpecRedact: redact_payload applied to a payload, and to its own result. *)
(* The strs are on both sides of each test of line 32: 24 and 25           *)
(* characters, runs of 19 and 20 alphanumerics, and a masked value.        *)
(***************************************************************************)
RedactTexts ==
    LET Rep(c, n) == [k \in 1..n |-> c]
    IN  [short |-> <<"a", "b", "c">>,
         len24 |-> Rep("a", 24),
         len25 |-> Rep("a", 25),
         run19 |-> Rep("a", 19) \o <<"-">> \o Rep("b", 5),
         run20 |-> Rep("a", 20) \o <<"-">> \o Rep("b", 4),
         key |-> <<"s", "k", "-">> \o Rep("K", 12) \o Rep("7", 12) \o <<"w", "x", "y", "z">>,
         masked |-> Rep("a", 4) \o REDACTED \o Rep("a", 4),
         cookie |-> <<"_", "c", "f", "=">> \o Rep("C", 26)]

MaxItems == 2              \* length of a list given to redact_payload

Payloads ==
    LET strs == {[kind |-> "str", chars |-> RedactTexts[f]] : f \in DOMAIN RedactTexts}
        flat == strs \cup {[kind |-> "int", value |-> 512], [kind |-> "null"]}
        lists == {[kind |-> "list", items |-> items] : items \in SeqsUpTo(strs, MaxItems)}
        dicts == {[kind |-> "dict",
                   items |-> <<[key |-> <<"k">>, value |-> v]>>] : v \in flat \cup lists}
        messages == {[kind |-> "list", items |-> <<d>>] : d \in dicts}
    IN  flat \cup lists \cup dicts \cup messages

InitRedact ==
    /\ EngineIdle
    /\ canon = NoCanon
    /\ files = <<>>
    /\ persist = NoPersist
    /\ seen = NoSeen
    /\ reduce = NoReduce
    /\ call = NoCall
    /\ redact \in {[NoRedact EXCEPT !.pc = "given", !.payload = x] : x \in Payloads}

RedactOnce ==
    /\ redact.pc = "given"
    /\ redact' = [redact EXCEPT !.once = RedactPayload(redact.payload), !.pc = "once"]
    /\ UNCHANGED <<engineVars, canon, files, persist, seen, reduce, call>>

RedactAgain ==
    /\ redact.pc = "once"
    /\ redact' = [redact EXCEPT !.twice = RedactPayload(redact.once), !.pc = "twice"]
    /\ UNCHANGED <<engineVars, canon, files, persist, seen, reduce, call>>

NextRedact == RedactOnce \/ RedactAgain

SpecRedact == InitRedact /\ [][NextRedact]_vars

\* C40: redact_payload(redact_payload(x)) = redact_payload(x) for every payload x.
C40_RedactPayloadIsIdempotent ==
    redact.pc = "twice" => redact.twice = redact.once

\* A dict whose list holds a str that was masked, redacted twice.
C40_MaskedInsideDictRedactedAgain ==
    /\ redact.pc = "twice"
    /\ redact.payload.kind = "dict"
    /\ redact.payload.items[1].value.kind = "list"
    /\ redact.once # redact.payload

(***************************************************************************)
(* providers/openai.py: one OpenAIProvider.generate call.  The url is      *)
(* passed through unread and is held as an atom.  A GenerationResult is    *)
(* held with the fields _persist_run reads; raw_request and raw_response   *)
(* are <<>> for None and <<d>> for the dict d.  str(exc), last_error, text *)
(* and error_code are NullText or Str(chars).  A response of the server is *)
(* [status_code, headers, text, data] with data = [ok, content]: ok is     *)
(* FALSE when response.json() or a subscript of lines 75-77 raises.        *)
(***************************************************************************)
MaxRetries == 2            \* largest max_retries of the provider (its default)

\* Line 70: range(self.max_retries + 1).
LoopRange_OneMore(max_retries) == 0..(max_retries + 1)

LoopRange(max_retries) == 0..max_retries

InitCall ==
    /\ EngineIdle
    /\ canon = NoCanon
    /\ files = <<>>
    /\ persist = NoPersist
    /\ seen = NoSeen
    /\ reduce = NoReduce
    /\ redact = NoRedact
    /\ call \in {[NoCall EXCEPT !.pc = "start", !.api_key = k, !.max_retries = r,
                                !.prompt = p] :
                    k \in {<<>>, RedactTexts.key},
                    r \in 0..MaxRetries,
                    p \in {RedactTexts.short, RedactTexts.len25}}

\* Lines 39-69: no key, or the request and its sanitized copy.
GenerateStart ==
    /\ call.pc = "start"
    /\ IF call.api_key = <<>>
       THEN call' = [call EXCEPT
                !.pc = "returned",
                !.result = [text |-> NullText, raw_request |-> <<>>, raw_response |-> <<>>,
                            error_code |-> Str(<<"m", "i", "s", "s", "i", "n", "g", "_", "a", "p", "i", "_", "k", "e", "y">>)]]
       ELSE LET url == "https://api.openai.com/v1/chat/completions"
                headers ==
                    <<[key |-> <<"A", "u", "t", "h", "o", "r", "i", "z", "a", "t", "i", "o", "n">>,
                       value |-> <<"B", "e", "a", "r", "e", "r", " ">> \o call.api_key],
                      [key |-> <<"C", "o", "n", "t", "e", "n", "t", "-", "T", "y", "p", "e">>,
                       value |-> <<"a", "p", "p", "l", "i", "c", "a", "t", "i", "o", "n", "/", "j", "s", "o", "n">>]>>
                message ==
                    [kind |-> "dict", items |->
                        <<[key |-> <<"r", "o", "l", "e">>,
                           value |-> [kind |-> "str", chars |-> <<"u", "s", "e", "r">>]],
                          [key |-> <<"c", "o", "n", "t", "e", "n", "t">>,
                           value |-> [kind |-> "str", chars |-> call.prompt]]>>]
                payload ==
                    [kind |-> "dict", items |->
                        <<[key |-> <<"m", "o", "d", "e", "l">>,
                           value |-> [kind |-> "str", chars |-> <<"g", "p", "t", "-", "4", "o", "-", "m", "i", "n", "i">>]],
                          [key |-> <<"m", "e", "s", "s", "a", "g", "e", "s">>,
                           value |-> [kind |-> "list", items |-> <<message>>]],
                          [key |-> <<"t", "e", "m", "p", "e", "r", "a", "t", "u", "r", "e">>,
                           value |-> [kind |-> "int", value |-> 0]],
                          [key |-> <<"m", "a", "x", "_", "t", "o", "k", "e", "n", "s">>,
                           value |-> [kind |-> "int", value |-> 512]]>>]
            IN  call' = [call EXCEPT
                    !.pc = "loop",
                    !.headers = headers,
                    !.payload = payload,
                    !.last_error = NullText,
                    !.sanitized_request = SanitizeRawIo(url, headers, payload)]
    /\ UNCHANGED <<engineVars, canon, files, persist, seen, reduce, redact>>

\* Lines 70-101: one turn of the loop.  client.post raises, or it returns a
\* response: Posts.
Attempt ==
    LET Posts ==
            LET json == <<"a", "p", "p", "l", "i", "c", "a", "t", "i", "o", "n", "/", "j", "s", "o", "n">>
                plain == <<[key |-> <<"c", "o", "n", "t", "e", "n", "t", "-", "t", "y", "p", "e">>, value |-> json]>>
                limits == plain \o
                    <<[key |-> <<"x", "-", "r", "a", "t", "e", "l", "i", "m", "i", "t", "-", "r", "e", "m", "a", "i", "n", "i", "n", "g", "-", "t", "o", "k", "e", "n", "s">>,
                       value |-> <<"1", "4", "9", "9", "8", "4">>]>>
                cookie == plain \o
                    <<[key |-> <<"s", "e", "t", "-", "c", "o", "o", "k", "i", "e">>, value |-> RedactTexts.cookie]>>
                Response(status_code, headers, text, ok, content) ==
                    [raised |-> FALSE, exc |-> NullText, status_code |-> status_code,
                     headers |-> headers, text |-> text,
                     data |-> [ok |-> ok, content |-> content]]
            IN  {[raised |-> TRUE, exc |-> e, status_code |-> 0, headers |-> <<>>, text |-> <<>>,
                  data |-> [ok |-> FALSE, content |-> NullText]] :
                     e \in {Str(<<>>), Str(<<"t", "i", "m", "e", "d", " ", "o", "u", "t">>)}}
                \cup {Response(s, plain, <<"e", "r", "r", "o", "r">>, FALSE, NullText) : s \in {401, 403, 500}}
                \cup {Response(200, plain, <<"{", "}">>, FALSE, NullText)}
                \cup {Response(200, h, t, TRUE, c) :
                         h \in {limits, cookie},
                         t \in {RedactTexts.short, RedactTexts.run20},
                         c \in {Str(RedactTexts.short), NullText}}
    IN  \E post \in Posts :
            /\ call.pc = "loop"
            /\ call.attempt \in LoopRange(call.max_retries)
            /\ LET sent == [call EXCEPT !.posts = Append(call.posts, post)]
                   Failed(last_error) ==
                       [sent EXCEPT !.last_error = last_error, !.attempt = call.attempt + 1]
                   body ==
                       [kind |-> "dict", items |->
                           <<[key |-> <<"s", "t", "a", "t", "u", "s", "_", "c", "o", "d", "e">>,
                              value |-> [kind |-> "int", value |-> post.status_code]],
                             [key |-> <<"b", "o", "d", "y", "_", "s", "n", "i", "p", "p", "e", "t">>,
                              value |-> [kind |-> "str",
                                         chars |-> SubSeq(post.text, 1,
                                                       IF Len(post.text) < 500 THEN Len(post.text)
                                                       ELSE 500)]]>>]
               IN  call' =
                       CASE post.raised -> Failed(post.exc)
                         [] ~post.raised /\ post.status_code >= 400 ->
                                Failed(IF post.status_code \in {401, 403}
                                       THEN Str(<<"a", "u", "t", "h", "_", "e", "r", "r", "o", "r">>)
                                       ELSE Str(<<"h", "t", "t", "p", "_">> \o JsonInt(post.status_code)))
                         [] ~post.raised /\ post.status_code < 400 /\ ~post.data.ok ->
                                Failed(Str(<<"'", "c", "h", "o", "i", "c", "e", "s", "'">>))
                         [] OTHER ->
                                [sent EXCEPT
                                    !.pc = "returned",
                                    !.result =
                                        [text |-> post.data.content,
                                         raw_request |-> <<call.sanitized_request>>,
                                         raw_response |->
                                             <<SanitizeRawIo("https://api.openai.com/v1/chat/completions",
                                                             post.headers, body)>>,
                                         error_code |-> NullText]]
            /\ UNCHANGED <<engineVars, canon, files, persist, seen, reduce, redact>>

\* Lines 103-114: the loop is over.
GiveUp ==
    /\ call.pc = "loop"
    /\ call.attempt \notin LoopRange(call.max_retries)
    /\ call' = [call EXCEPT
           !.pc = "returned",
           !.result =
               [text |-> NullText,
                raw_request |-> <<call.sanitized_request>>,
                raw_response |-> <<>>,
                error_code |-> IF Truthy(call.last_error) THEN call.last_error
                               ELSE Str(<<"u", "n", "k", "n", "o", "w", "n", "_", "e", "r", "r", "o", "r">>)]]
    /\ UNCHANGED <<engineVars, canon, files, persist, seen, reduce, redact>>

\* pipeline.py 380-403: the run document, with the fields that hold text of the call.
PersistRaw ==
    /\ call.pc = "returned"
    /\ call' = [call EXCEPT
           !.pc = "persisted",
           !.document =
               [request |-> [prompt |-> call.prompt],
                raw_generations |->
                    <<[raw_request |-> call.result.raw_request,
                       raw_response |-> call.result.raw_response,
                       error_code |-> call.result.error_code]>>]]
    /\ UNCHANGED <<engineVars, canon, files, persist, seen, reduce, redact>>

NextCall ==
    \/ GenerateStart
    \/ Attempt
    \/ GiveUp
    \/ PersistRaw

\* The loop is straight-line code: each post ends within the client timeout and
\* each sleep of lines 98 and 101 is finite.
SpecCall == InitCall /\ [][NextCall]_vars /\ WF_vars(NextCall)

CallOver == call.pc \in {"returned", "persisted"}

\* An attempt that line 78 returns from: a response below 400 whose body has the choice.
C39_Ok(post) == ~post.raised /\ post.status_code < 400 /\ post.data.ok

RECURSIVE C32_Strs(_)
C32_Strs(v) ==
    CASE v.kind = "str" -> {v.chars}
      [] v.kind = "dict" -> UNION {C32_Strs(v.items[k].value) : k \in DOMAIN v.items}
      [] v.kind = "list" -> UNION {C32_Strs(v.items[k]) : k \in DOMAIN v.items}
      [] OTHER -> {}

\* The raw_request and raw_response dicts of the persisted document.
C32_Trail ==
    UNION {{g.raw_request[k] : k \in DOMAIN g.raw_request}
           \cup {g.raw_response[k] : k \in DOMAIN g.raw_response} :
              g \in {call.document.raw_generations[j] :
                        j \in DOMAIN call.document.raw_generations}}

\* Every header of the trail whose name matches a pattern is stored as the mask.
C32_SecretHeadersMasked ==
    call.pc = "persisted" =>
        \A d \in C32_Trail : \A k \in DOMAIN d.headers :
            IsSecretHeader(d.headers[k].key) => d.headers[k].value = REDACTED

\* No str of a body of the trail is long and token-like, and the token-like strs
\* of the request body are stored as their first and last four characters
\* around the mask.
C32_BodyTokensMasked ==
    call.pc = "persisted" =>
        /\ \A d \in C32_Trail : \A s \in C32_Strs(d.body) : ~IsTokenLike(s)
        /\ \A k \in DOMAIN call.document.raw_generations[1].raw_request :
               \A s \in C32_Strs(call.payload) :
                   IsTokenLike(s) =>
                       Mask(s) \in C32_Strs(call.document.raw_generations[1].raw_request[k].body)

\* The API key is in no header value and in no body str of the trail.
C32_ApiKeyNotInTrail ==
    (call.pc = "persisted" /\ call.api_key # <<>>) =>
        \A d \in C32_Trail :
            LET In(p, s) == \E i \in 0..(Len(s) - Len(p)) : SubSeq(s, i + 1, i + Len(p)) = p
            IN  /\ \A k \in DOMAIN d.headers : ~In(call.api_key, d.headers[k].value)
                /\ \A s \in C32_Strs(d.body) : ~In(call.api_key, s)

\* No header value of the trail is long and token-like.
C32_HeaderTokensMasked ==
    call.pc = "persisted" =>
        \A d \in C32_Trail : \A k \in DOMAIN d.headers : ~IsTokenLike(d.headers[k].value)

\* A str that was masked in the trail is nowhere else in the document.
C32_MaskedNowhereElse ==
    call.pc = "persisted" =>
        \A s \in C32_Strs(call.payload) :
            IsTokenLike(s) => call.document.request.prompt # s

\* C32: in the persisted document every header or body field of the trail with a
\* matching name and every long token-like string value is stored masked, and
\* the original value is nowhere in the document.
C32_SecretsMaskedInDocument ==
    /\ C32_SecretHeadersMasked
    /\ C32_BodyTokensMasked
    /\ C32_ApiKeyNotInTrail
    /\ C32_HeaderTokensMasked
    /\ C32_MaskedNowhereElse

====
